---------------------------- MODULE Spec2Model ----------------------------
(***************************************************************************)
(* The emoji table generator (crates/emojeez_generate) and the types it    *)
(* shares with the picker (crates/unicode-types).  main() runs             *)
(* unicode::build(), which loads the alias catalog, downloads and parses   *)
(* the registry and folds the parsed entries, one at a time, into the      *)
(* ordered collection `emojis`; main() then formats the collection with    *)
(* generate_rust_code and writes the result to the table file.             *)
(*                                                                         *)
(* Option<T> is modelled as a sequence: None is <<>>, Some(x) is <<x>>.    *)
(* A glyph (a Rust String) is the sequence of its code points, and so is   *)
(* every text the code takes apart; a text it only copies is a TLA+        *)
(* string.  Vec index i of the source is position i + 1 here.              *)
(***************************************************************************)
EXTENDS Integers, Sequences, FiniteSets, TLC

VARIABLES
    pc,        \* where main() is: github_build, download, parse, aggregate,
               \* emit, write, done, aborted
    gemojis,   \* unicode/mod.rs:113, the alias catalog
    entries,   \* unicode/mod.rs:116, the entries of the Vec parse_data
               \* returned that the for loop of build() has taken so far
    emojis,    \* unicode/mod.rs:114, the aggregated collection
    err,       \* the error that ended the run, "" while there is none
    code,      \* main.rs:11, Some(the table generate_rust_code returned),
               \* None before the call
    file,      \* main.rs:14, Some(the content of crates/emojeez/src/lib.rs),
               \* None while main() has not written it
    origin,    \* history: origin[k] is the position in `entries` of the
               \* entry that created emojis[k]
    selected,  \* history: selected[n] is the origin of the record the
               \* backward search of entry n selected, 0 when entry n ran none
    lines_read,        \* unicode/mod.rs:31, the lines of the registry text
                       \* that the for loop of parse_emoji_data has taken
    current_group,     \* unicode/mod.rs:28, `group`
    current_subgroup,  \* unicode/mod.rs:29, `subgroup`
    arg,       \* the arguments of a call of a function of the library
    ret,       \* the value the call returned, None before the call
    grid,              \* emotif/main.rs:33, the children of the Grid: the
                       \* positions in button_cache of the attached buttons
    button_cache,      \* emotif/main.rs:43, the buttons made so far
    search_generation, \* emotif/main.rs:47
    timeouts,          \* emotif/main.rs:65, the callbacks glib has yet to run
    clipboard,         \* emotif/main.rs:41, Some(the text last copied)
    copied,            \* history: the glyph the button last clicked
                       \* displayed and the texts the click copied, in order
    events,            \* history: the texts of the search entry at the
                       \* search-changed events so far
    populations        \* history: the queries of the calls of populate_grid

\* The variables of main(), of parse_emoji_data and of a library call.
main_vars == <<gemojis, emojis, code, file, origin, selected>>

parse_vars == <<lines_read, current_group, current_subgroup>>

call_vars == <<arg, ret>>

\* The variables of the picker (crates/emotif).
ui_vars ==
    <<grid, button_cache, search_generation, timeouts, clipboard, copied,
      events, populations>>

vars ==
    <<pc, gemojis, entries, emojis, err, code, file, origin, selected,
      lines_read, current_group, current_subgroup, arg, ret, grid,
      button_cache, search_generation, timeouts, clipboard, copied, events,
      populations>>

\* The picker before build_ui ran.
InitUi ==
    /\ grid = << >>
    /\ button_cache = << >>
    /\ search_generation = 0
    /\ timeouts = {}
    /\ clipboard = << >>
    /\ copied = << >>
    /\ events = << >>
    /\ populations = << >>

(***************************************************************************)
(* Bounds of the model.                                                    *)
(***************************************************************************)
MaxEntries == 5

(***************************************************************************)
(* unicode-types: Option, Version, Status, Group, SkinTone.                *)
(***************************************************************************)
None == << >>

Some(x) == <<x>>

Version(major, minor) == [major |-> major, minor |-> minor]

Status == {"FullyQualified", "MinimallyQualified", "Unqualified", "Component"}

Group ==
    {"SmileysAndEmotion", "PeopleAndBody", "AnimalsAndNature", "FoodAndDrink",
     "TravelAndPlaces", "Activities", "Objects", "Symbols", "Flags", "Component"}

\* The variants of SkinTone in declaration order, which #[derive(Ord)] makes
\* the order of the type.
SkinTone ==
    << "Default", "Light", "MediumLight", "Medium", "MediumDark", "Dark",
       "LightAndMediumLight", "LightAndMedium", "LightAndMediumDark",
       "LightAndDark", "MediumLightAndLight", "MediumLightAndMedium",
       "MediumLightAndMediumDark", "MediumLightAndDark", "MediumAndLight",
       "MediumAndMediumLight", "MediumAndMediumDark", "MediumAndDark",
       "MediumDarkAndLight", "MediumDarkAndMediumLight", "MediumDarkAndMedium",
       "MediumDarkAndDark", "DarkAndLight", "DarkAndMediumLight",
       "DarkAndMedium", "DarkAndMediumDark" >>

\* The discriminant of a SkinTone variant.
ToneRank(t) == CHOOSE k \in 1..Len(SkinTone) : SkinTone[k] = t

\* Option<SkinTone>'s derived `<`: None is below every Some, and Some(a) <
\* Some(b) iff a < b.
OptionLt(a, b) ==
    IF b = None THEN FALSE
    ELSE IF a = None THEN TRUE
    ELSE ToneRank(a[1]) < ToneRank(b[1])

\* matches!(e.skin_tone, None | Some(SkinTone::Default))
IsDefaultKind(tone) == tone = None \/ tone = Some("Default")

(***************************************************************************)
(* The five modifier code points of parse_skin_tone.                       *)
(***************************************************************************)
LightModifier == 127995

MediumLightModifier == 127996

MediumModifier == 127997

MediumDarkModifier == 127998

DarkModifier == 127999

\* The filter_map closure of parse_skin_tone: Some(tone) for a modifier,
\* None for every other character.
ModifierTone(c) ==
    CASE c = LightModifier -> Some("Light")
      [] c = MediumLightModifier -> Some("MediumLight")
      [] c = MediumModifier -> Some("Medium")
      [] c = MediumDarkModifier -> Some("MediumDark")
      [] c = DarkModifier -> Some("Dark")
      [] OTHER -> None

\* entry.emoji.chars().filter_map(..).collect()
RECURSIVE FilterTones(_)
FilterTones(glyph) ==
    IF glyph = << >> THEN << >>
    ELSE ModifierTone(Head(glyph)) \o FilterTones(Tail(glyph))

\* PairTone whose arms for Dark first and Light first are exchanged.
PairToneSwapped(a, b) ==
    CASE a = "Light" /\ b = "Dark" -> Some("DarkAndLight")
      [] a = "Dark" /\ b = "Light" -> Some("LightAndDark")
      [] a = "Light" /\ b = "MediumLight" -> Some("LightAndMediumLight")
      [] a = "Light" /\ b = "Medium" -> Some("LightAndMedium")
      [] a = "Light" /\ b = "MediumDark" -> Some("LightAndMediumDark")
      [] a = "MediumLight" /\ b = "Light" -> Some("MediumLightAndLight")
      [] a = "MediumLight" /\ b = "Medium" -> Some("MediumLightAndMedium")
      [] a = "MediumLight" /\ b = "MediumDark" -> Some("MediumLightAndMediumDark")
      [] a = "MediumLight" /\ b = "Dark" -> Some("MediumLightAndDark")
      [] a = "Medium" /\ b = "Light" -> Some("MediumAndLight")
      [] a = "Medium" /\ b = "MediumLight" -> Some("MediumAndMediumLight")
      [] a = "Medium" /\ b = "MediumDark" -> Some("MediumAndMediumDark")
      [] a = "Medium" /\ b = "Dark" -> Some("MediumAndDark")
      [] a = "MediumDark" /\ b = "Light" -> Some("MediumDarkAndLight")
      [] a = "MediumDark" /\ b = "MediumLight" -> Some("MediumDarkAndMediumLight")
      [] a = "MediumDark" /\ b = "Medium" -> Some("MediumDarkAndMedium")
      [] a = "MediumDark" /\ b = "Dark" -> Some("MediumDarkAndDark")
      [] a = "Dark" /\ b = "MediumLight" -> Some("DarkAndMediumLight")
      [] a = "Dark" /\ b = "Medium" -> Some("DarkAndMedium")
      [] a = "Dark" /\ b = "MediumDark" -> Some("DarkAndMediumDark")
      [] OTHER -> None

\* The twenty two-element arms of the match of parse_skin_tone; None for a
\* pair no arm names.
PairTone(a, b) ==
    CASE a = "Light" /\ b = "MediumLight" -> Some("LightAndMediumLight")
      [] a = "Light" /\ b = "Medium" -> Some("LightAndMedium")
      [] a = "Light" /\ b = "MediumDark" -> Some("LightAndMediumDark")
      [] a = "Light" /\ b = "Dark" -> Some("LightAndDark")
      [] a = "MediumLight" /\ b = "Light" -> Some("MediumLightAndLight")
      [] a = "MediumLight" /\ b = "Medium" -> Some("MediumLightAndMedium")
      [] a = "MediumLight" /\ b = "MediumDark" -> Some("MediumLightAndMediumDark")
      [] a = "MediumLight" /\ b = "Dark" -> Some("MediumLightAndDark")
      [] a = "Medium" /\ b = "Light" -> Some("MediumAndLight")
      [] a = "Medium" /\ b = "MediumLight" -> Some("MediumAndMediumLight")
      [] a = "Medium" /\ b = "MediumDark" -> Some("MediumAndMediumDark")
      [] a = "Medium" /\ b = "Dark" -> Some("MediumAndDark")
      [] a = "MediumDark" /\ b = "Light" -> Some("MediumDarkAndLight")
      [] a = "MediumDark" /\ b = "MediumLight" -> Some("MediumDarkAndMediumLight")
      [] a = "MediumDark" /\ b = "Medium" -> Some("MediumDarkAndMedium")
      [] a = "MediumDark" /\ b = "Dark" -> Some("MediumDarkAndDark")
      [] a = "Dark" /\ b = "Light" -> Some("DarkAndLight")
      [] a = "Dark" /\ b = "MediumLight" -> Some("DarkAndMediumLight")
      [] a = "Dark" /\ b = "Medium" -> Some("DarkAndMedium")
      [] a = "Dark" /\ b = "MediumDark" -> Some("DarkAndMediumDark")
      [] OTHER -> None

\* parse_skin_tone: [ok |-> TRUE, tone |-> an Option<SkinTone>] for Ok, and
\* [ok |-> FALSE, tone |-> None] for the Err of the last arm.
parse_skin_tone(entry) ==
    LET skin_tones == FilterTones(entry.emoji)
    IN  CASE Len(skin_tones) = 0 -> [ok |-> TRUE, tone |-> None]
          [] Len(skin_tones) = 1 -> [ok |-> TRUE, tone |-> Some(skin_tones[1])]
          [] Len(skin_tones) = 2 /\ PairTone(skin_tones[1], skin_tones[2]) # None ->
                [ok |-> TRUE, tone |-> PairTone(skin_tones[1], skin_tones[2])]
          [] Len(skin_tones) = 2 /\ skin_tones[1] = skin_tones[2] ->
                [ok |-> TRUE, tone |-> Some(skin_tones[1])]
          [] OTHER -> [ok |-> FALSE, tone |-> None]

(***************************************************************************)
(* The inputs: the entries parse_data can return and the catalogs          *)
(* github::build can return.  parse_entry leaves ios_version None and tags *)
(* and aliases empty (unicode/mod.rs:78-80).                               *)
(***************************************************************************)
Entry(group, subgroup, status, emoji, name) ==
    [group |-> group, subgroup |-> subgroup, status |-> status,
     unicode_version |-> Version(1, 0), emoji |-> emoji, name |-> name,
     ios_version |-> None, tags |-> << >>, aliases |-> << >>]

\* 1F44B, the base glyph of a family with tone siblings.
WavingHand ==
    Entry("PeopleAndBody", "hand-fingers-open", "FullyQualified",
          <<128075>>, "waving hand")

\* The single-tone sibling of WavingHand for a base tone.
WavingHandTone(modifier, name) ==
    Entry("PeopleAndBody", "hand-fingers-open", "FullyQualified",
          <<128075, modifier>>, name)

HandLight == WavingHandTone(LightModifier, "waving hand: light skin tone")

HandMediumLight ==
    WavingHandTone(MediumLightModifier, "waving hand: medium-light skin tone")

HandMedium == WavingHandTone(MediumModifier, "waving hand: medium skin tone")

HandMediumDark ==
    WavingHandTone(MediumDarkModifier, "waving hand: medium-dark skin tone")

HandDark == WavingHandTone(DarkModifier, "waving hand: dark skin tone")

\* 263A FE0F, a glyph of another (group, subgroup).
SmilingFace ==
    Entry("SmileysAndEmotion", "face-affection", "FullyQualified",
          <<9786, 65039>>, "smiling face")

\* 263A, the unqualified spelling of SmilingFace.
SmilingFaceUnqualified ==
    Entry("SmileysAndEmotion", "face-affection", "Unqualified",
          <<9786>>, "smiling face")

\* 1F9D1 200D 2764 200D 1F9D1, a minimally-qualified spelling.
CoupleMinimallyQualified ==
    Entry("PeopleAndBody", "family", "MinimallyQualified",
          <<129489, 8205, 10084, 8205, 129489>>, "couple with heart")

\* 1F3FB under `# group: Component`, as the registry lists the modifiers.
ComponentLight ==
    Entry("Component", "skin-tone", "Component",
          <<LightModifier>>, "light skin tone")

\* An unqualified line under `# group: Component`.
ComponentUnqualified ==
    Entry("Component", "hair-style", "Unqualified", <<129456>>, "red hair")

\* A component-status line under a group other than Component.
ComponentHair ==
    Entry("PeopleAndBody", "person", "Component", <<129456>>, "red hair")

\* A glyph with three modifiers.
ThreeTones ==
    Entry("PeopleAndBody", "family", "FullyQualified",
          <<129489, LightModifier, 129489, MediumModifier, 129490, DarkModifier>>,
          "family: three tones")

\* 1FAF1 1F3FB 200D 1FAF2 1F3FF, a glyph with two different modifiers, in
\* the group of WavingHand and another subgroup.
HandshakeLightDark ==
    Entry("PeopleAndBody", "hands", "FullyQualified",
          <<129777, LightModifier, 8205, 129778, DarkModifier>>,
          "handshake: light skin tone, dark skin tone")

\* The entries of the registries of Spec, which hold at most MaxEntries of
\* them.
Lines ==
    {WavingHand, HandLight, HandDark, SmilingFace, SmilingFaceUnqualified,
     CoupleMinimallyQualified, ComponentLight, ComponentHair, ThreeTones,
     HandshakeLightDark, ComponentUnqualified}

\* The family of WavingHand: the base and its five single-tone siblings.
FamilyTones == <<HandLight, HandMediumLight, HandMedium, HandMediumDark, HandDark>>

FamilyLines == {WavingHand} \cup {FamilyTones[k] : k \in 1..Len(FamilyTones)}

\* github/mod.rs:19-24
Gemoji(emoji, aliases, ios_version, tags) ==
    [emoji |-> emoji, aliases |-> aliases, ios_version |-> ios_version,
     tags |-> tags]

\* The catalogs github::build returns: an empty one, and one whose first
\* record is the record of 1F44B and whose second has the same key.
Catalogs ==
    { << >>,
      << Gemoji(<<128075>>, <<"wave">>, Version(6, 0), <<"goodbye">>),
         Gemoji(<<128075>>, <<"hand">>, Version(8, 3), << >>) >> }

(***************************************************************************)
(* Helpers of the loop body of build().                                    *)
(***************************************************************************)
\* gemojis.iter().find(|g| g.emoji == entry.emoji): the position of the first
\* catalog record of that glyph, 0 for None.
FindGemoji(catalog, glyph) ==
    IF \E k \in 1..Len(catalog) : catalog[k].emoji = glyph
    THEN CHOOSE k \in 1..Len(catalog) :
            /\ catalog[k].emoji = glyph
            /\ \A m \in 1..(k - 1) : catalog[m].emoji # glyph
    ELSE 0

\* Enrich that leaves the aliases of the entry alone.
EnrichNoAliases(catalog, entry) ==
    LET g == FindGemoji(catalog, entry.emoji)
    IN  IF g = 0 THEN entry
        ELSE [entry EXCEPT !.ios_version = Some(catalog[g].ios_version),
                           !.tags = catalog[g].tags]

\* unicode/mod.rs:121-125: the entry with the catalog record's ios_version,
\* tags and aliases when the catalog holds its glyph, the entry as it is
\* otherwise.
Enrich(catalog, entry) ==
    LET g == FindGemoji(catalog, entry.emoji)
    IN  IF g = 0 THEN entry
        ELSE [entry EXCEPT !.ios_version = Some(catalog[g].ios_version),
                           !.tags = catalog[g].tags,
                           !.aliases = catalog[g].aliases]

\* NewEmoji that stores a missing tone as Some(Default).
NewEmojiDefault(entry, skin_tone) ==
    [entry |-> entry, skin_tones |-> 1,
     skin_tone |-> IF skin_tone = None THEN Some("Default") ELSE skin_tone,
     variations |-> << >>]

\* Emoji { entry, skin_tones: 1, skin_tone, variations: Vec::new() }
NewEmoji(entry, skin_tone) ==
    [entry |-> entry, skin_tones |-> 1, skin_tone |-> skin_tone,
     variations |-> << >>]

\* FindDefault without the subgroup test of unicode/mod.rs:159.
FindDefaultAnySubgroup(ems, entry) ==
    LET hits == {k \in 1..Len(ems) :
                    /\ IsDefaultKind(ems[k].skin_tone)
                    /\ ems[k].entry.group = entry.group}
    IN  IF hits = {} THEN 0
        ELSE CHOOSE k \in hits : \A m \in hits : m <= k

\* The .rev().find(..) of unicode/mod.rs:152-160: the last position of `ems`
\* whose record has skin_tone None or Some(Default) and the group and
\* subgroup of `entry`; 0 when find returns None.
FindDefault(ems, entry) ==
    LET hits == {k \in 1..Len(ems) :
                    /\ IsDefaultKind(ems[k].skin_tone)
                    /\ ems[k].entry.group = entry.group
                    /\ ems[k].entry.subgroup = entry.subgroup}
    IN  IF hits = {} THEN 0
        ELSE CHOOSE k \in hits : \A m \in hits : m <= k

\* Promote without the increment of unicode/mod.rs:168.
PromoteNoCount(def) == [def EXCEPT !.skin_tone = Some("Default")]

\* unicode/mod.rs:167-168
Promote(def) ==
    [def EXCEPT !.skin_tone = Some("Default"), !.skin_tones = def.skin_tones + 1]

\* The closure of partition_point: e.skin_tone < Some(skin_tone)
BelowTone(e, skin_tone) == OptionLt(e.skin_tone, Some(skin_tone))

\* slice::binary_search_by as the standard library has it since Rust 1.82,
\* under the comparator partition_point builds (Less where the predicate
\* holds, Greater where it does not): the number of leading elements on a
\* partitioned slice.
RECURSIVE BisectBaseSize(_, _, _, _)
BisectBaseSize(s, skin_tone, base, size) ==
    IF size > 1
    THEN LET half == size \div 2
             mid == base + half
         IN  BisectBaseSize(s, skin_tone,
                            IF BelowTone(s[mid + 1], skin_tone) THEN mid ELSE base,
                            size - half)
    ELSE IF BelowTone(s[base + 1], skin_tone) THEN base + 1 ELSE base

\* slice::binary_search_by as the standard library had it before Rust 1.82.
RECURSIVE BisectLeftRight(_, _, _, _)
BisectLeftRight(s, skin_tone, left, right) ==
    IF left < right
    THEN LET mid == left + (right - left) \div 2
         IN  IF BelowTone(s[mid + 1], skin_tone)
             THEN BisectLeftRight(s, skin_tone, mid + 1, right)
             ELSE BisectLeftRight(s, skin_tone, left, mid)
    ELSE left

\* partition_point that answers the length of the slice: the new record
\* goes to the end of the collection.
PartitionPointEnd(s, skin_tone) == {Len(s)}

\* emojis[i..].partition_point(|e| e.skin_tone < Some(skin_tone)): the
\* results the standard library's binary searches give.  They agree on every
\* partitioned slice; the result on another slice is unspecified.
partition_point(s, skin_tone) ==
    IF s = << >> THEN {0}
    ELSE {BisectBaseSize(s, skin_tone, 0, Len(s)),
          BisectLeftRight(s, skin_tone, 0, Len(s))}

\* Insert that overwrites the element at k instead of shifting it.
InsertOverwriting(s, k, x) ==
    SubSeq(s, 1, k - 1) \o <<x>> \o SubSeq(s, k + 1, Len(s))

\* Vec::insert(k - 1, x) for a position k of 1..Len(s) + 1.
Insert(s, k, x) == SubSeq(s, 1, k - 1) \o <<x>> \o SubSeq(s, k, Len(s))

(***************************************************************************)
(* main() and build().  The for loop of build() takes the entries of the   *)
(* parsed Vec one at a time; each action of the loop body is one iteration *)
(* on the entry it takes.                                                  *)
(***************************************************************************)
Init ==
    /\ pc = "github_build"
    /\ gemojis = << >>
    /\ entries = << >>
    /\ emojis = << >>
    /\ err = ""
    /\ code = None
    /\ file = None
    /\ origin = << >>
    /\ selected = << >>
    /\ lines_read = << >>
    /\ current_group = << >>
    /\ current_subgroup = << >>
    /\ arg = << >>
    /\ ret = << >>
    /\ InitUi

\* Abort that goes on to emit what was aggregated before the error.
AbortAndEmit(kind) ==
    /\ pc' = "emit"
    /\ err' = kind

\* A `?` that returns the error from build(), or a panic in it: main()'s
\* unwrap ends the process.
Abort(kind) ==
    /\ pc' = "aborted"
    /\ err' = kind

\* unicode/mod.rs:113, crate::github::build()? returning Ok
GithubBuild ==
    /\ pc = "github_build"
    /\ \E catalog \in Catalogs : gemojis' = catalog
    /\ pc' = "download"
    /\ UNCHANGED <<entries, emojis, err, code, file, origin, selected>>
    /\ UNCHANGED <<parse_vars, call_vars, ui_vars>>

\* unicode/mod.rs:113, crate::github::build()? returning Err: the download
\* or the JSON parse failed
GithubBuildErr ==
    /\ pc = "github_build"
    /\ Abort("Catalog")
    /\ UNCHANGED <<gemojis, entries, emojis, code, file, origin, selected>>
    /\ UNCHANGED <<parse_vars, call_vars, ui_vars>>

\* unicode/mod.rs:115, util::cached_download(..)? returning Ok
CachedDownload ==
    /\ pc = "download"
    /\ pc' = "parse"
    /\ UNCHANGED <<gemojis, entries, emojis, err, code, file, origin, selected>>
    /\ UNCHANGED <<parse_vars, call_vars, ui_vars>>

\* unicode/mod.rs:115, util::cached_download(..)? returning Err
CachedDownloadErr ==
    /\ pc = "download"
    /\ Abort("Retrieval")
    /\ UNCHANGED <<gemojis, entries, emojis, code, file, origin, selected>>
    /\ UNCHANGED <<parse_vars, call_vars, ui_vars>>

\* unicode/mod.rs:116, parse_data(&data) returning Ok
ParseData ==
    /\ pc = "parse"
    /\ pc' = "aggregate"
    /\ UNCHANGED <<gemojis, entries, emojis, err, code, file, origin, selected>>
    /\ UNCHANGED <<parse_vars, call_vars, ui_vars>>

\* unicode/mod.rs:116, parse_data(&data) returning Err
ParseDataErr ==
    /\ pc = "parse"
    /\ Abort("Parse")
    /\ UNCHANGED <<gemojis, entries, emojis, code, file, origin, selected>>
    /\ UNCHANGED <<parse_vars, call_vars, ui_vars>>

\* unicode/mod.rs:116, the for loop takes `entry`, the next entry of the Vec.
Take(entry) ==
    /\ pc = "aggregate"
    /\ entries' = Append(entries, entry)

\* unicode/mod.rs:117-119
SkipComponentGroup(entry) ==
    /\ Take(entry)
    /\ entry.group = "Component"
    /\ selected' = Append(selected, 0)
    /\ UNCHANGED <<pc, gemojis, emojis, err, code, file, origin>>
    /\ UNCHANGED <<parse_vars, call_vars, ui_vars>>

\* unicode/mod.rs:128
StatusComponent(entry) ==
    /\ Take(entry)
    /\ entry.group # "Component"
    /\ Enrich(gemojis, entry).status = "Component"
    /\ Abort("Unreachable")
    /\ UNCHANGED <<gemojis, emojis, code, file, origin, selected>>
    /\ UNCHANGED <<parse_vars, call_vars, ui_vars>>

\* NoCanonicalVariant that drops the entry and goes on.
NoCanonicalVariantDropped(entry) ==
    /\ Take(entry)
    /\ entry.group # "Component"
    /\ Enrich(gemojis, entry).status \in {"MinimallyQualified", "Unqualified"}
    /\ emojis = << >>
    /\ selected' = Append(selected, 0)
    /\ UNCHANGED <<pc, gemojis, emojis, err, code, file, origin>>
    /\ UNCHANGED <<parse_vars, call_vars, ui_vars>>

\* unicode/mod.rs:129-135, emojis.last_mut() is None
NoCanonicalVariant(entry) ==
    /\ Take(entry)
    /\ entry.group # "Component"
    /\ Enrich(gemojis, entry).status \in {"MinimallyQualified", "Unqualified"}
    /\ emojis = << >>
    /\ Abort("NoCanonicalVariant")
    /\ UNCHANGED <<gemojis, emojis, code, file, origin, selected>>
    /\ UNCHANGED <<parse_vars, call_vars, ui_vars>>

\* unicode/mod.rs:129-137, last.variations.push(entry.emoji)
PushVariation(entry) ==
    /\ Take(entry)
    /\ entry.group # "Component"
    /\ Enrich(gemojis, entry).status \in {"MinimallyQualified", "Unqualified"}
    /\ emojis # << >>
    /\ emojis' = [emojis EXCEPT ![Len(emojis)].variations =
                                    Append(@, Enrich(gemojis, entry).emoji)]
    /\ selected' = Append(selected, 0)
    /\ UNCHANGED <<pc, gemojis, err, code, file, origin>>
    /\ UNCHANGED <<parse_vars, call_vars, ui_vars>>

\* unicode/mod.rs:139, parse_skin_tone(&entry)? returning Err
UnrecognizedToneCombination(entry) ==
    /\ Take(entry)
    /\ entry.group # "Component"
    /\ Enrich(gemojis, entry).status = "FullyQualified"
    /\ ~parse_skin_tone(Enrich(gemojis, entry)).ok
    /\ Abort("UnrecognizedToneCombination")
    /\ UNCHANGED <<gemojis, emojis, code, file, origin, selected>>
    /\ UNCHANGED <<parse_vars, call_vars, ui_vars>>

\* unicode/mod.rs:142-149
PushEmoji(entry) ==
    /\ Take(entry)
    /\ entry.group # "Component"
    /\ Enrich(gemojis, entry).status = "FullyQualified"
    /\ parse_skin_tone(Enrich(gemojis, entry)).ok
    /\ IsDefaultKind(parse_skin_tone(Enrich(gemojis, entry)).tone)
    /\ emojis' = Append(emojis, NewEmoji(Enrich(gemojis, entry),
                                         parse_skin_tone(Enrich(gemojis, entry)).tone))
    /\ origin' = Append(origin, Len(entries) + 1)
    /\ selected' = Append(selected, 0)
    /\ UNCHANGED <<pc, gemojis, err, code, file>>
    /\ UNCHANGED <<parse_vars, call_vars, ui_vars>>

\* unicode/mod.rs:150-166, the backward search finds no record
NoDefaultToneSibling(entry) ==
    /\ Take(entry)
    /\ entry.group # "Component"
    /\ Enrich(gemojis, entry).status = "FullyQualified"
    /\ parse_skin_tone(Enrich(gemojis, entry)).ok
    /\ ~IsDefaultKind(parse_skin_tone(Enrich(gemojis, entry)).tone)
    /\ FindDefault(emojis, Enrich(gemojis, entry)) = 0
    /\ Abort("NoDefaultToneSibling")
    /\ UNCHANGED <<gemojis, emojis, code, file, origin, selected>>
    /\ UNCHANGED <<parse_vars, call_vars, ui_vars>>

\* unicode/mod.rs:150-182: the record the backward search finds is promoted
\* and counted, and the new record inserted at i + j
InsertTone(entry) ==
    /\ Take(entry)
    /\ entry.group # "Component"
    /\ Enrich(gemojis, entry).status = "FullyQualified"
    /\ parse_skin_tone(Enrich(gemojis, entry)).ok
    /\ ~IsDefaultKind(parse_skin_tone(Enrich(gemojis, entry)).tone)
    /\ FindDefault(emojis, Enrich(gemojis, entry)) # 0
    /\ LET skin_tone == parse_skin_tone(Enrich(gemojis, entry)).tone[1]
           i == FindDefault(emojis, Enrich(gemojis, entry))
           promoted == [emojis EXCEPT ![i] = Promote(@)]
       IN  \E j \in partition_point(SubSeq(promoted, i, Len(promoted)), skin_tone) :
              /\ emojis' = Insert(promoted, i + j,
                                  NewEmoji(Enrich(gemojis, entry), Some(skin_tone)))
              /\ origin' = Insert(origin, i + j, Len(entries) + 1)
              /\ selected' = Append(selected, origin[i])
    /\ UNCHANGED <<pc, gemojis, err, code, file>>
    /\ UNCHANGED <<parse_vars, call_vars, ui_vars>>

\* unicode/mod.rs:188, the Vec is exhausted: Ok(emojis), and main.rs:9
BuildReturn ==
    /\ pc = "aggregate"
    /\ pc' = "emit"
    /\ UNCHANGED <<gemojis, entries, emojis, err, code, file, origin, selected>>
    /\ UNCHANGED <<parse_vars, call_vars, ui_vars>>

(***************************************************************************)
(* output.rs: the table generate_rust_code writes, as the sequence of the  *)
(* records its text denotes.                                               *)
(***************************************************************************)
\* output.rs:26-130, the text written for one record
EmitEmoji(emoji) ==
    [entry |->
        [group |-> emoji.entry.group,
         subgroup |-> emoji.entry.subgroup,
         status |-> emoji.entry.status,
         unicode_version |-> Version(emoji.entry.unicode_version.major,
                                     emoji.entry.unicode_version.minor),
         emoji |-> emoji.entry.emoji,
         name |-> emoji.entry.name,
         ios_version |->
            IF emoji.entry.ios_version # None
            THEN Some(Version(emoji.entry.ios_version[1].major,
                              emoji.entry.ios_version[1].minor))
            ELSE None,
         tags |-> emoji.entry.tags,
         aliases |-> emoji.entry.aliases],
     skin_tones |-> emoji.skin_tones,
     skin_tone |-> IF emoji.skin_tone # None THEN Some(emoji.skin_tone[1]) ELSE None,
     variations |-> << >>]

\* output.rs:10-134
generate_rust_code(data) == [k \in 1..Len(data) |-> EmitEmoji(data[k])]

\* main.rs:11
GenerateRustCode ==
    /\ pc = "emit"
    /\ code' = Some(generate_rust_code(emojis))
    /\ pc' = "write"
    /\ UNCHANGED <<gemojis, entries, emojis, err, file, origin, selected>>
    /\ UNCHANGED <<parse_vars, call_vars, ui_vars>>

\* main.rs:13-14, fs::write returning Ok
FsWrite ==
    /\ pc = "write"
    /\ file' = Some(code[1])
    /\ pc' = "done"
    /\ UNCHANGED <<gemojis, entries, emojis, err, code, origin, selected>>
    /\ UNCHANGED <<parse_vars, call_vars, ui_vars>>

\* main.rs:13-14, fs::write returning Err: the file could not be created
FsWriteErr ==
    /\ pc = "write"
    /\ Abort("Write")
    /\ UNCHANGED <<gemojis, entries, emojis, code, file, origin, selected>>
    /\ UNCHANGED <<parse_vars, call_vars, ui_vars>>

\* The entries the Vec can hold at the position the loop is at: a registry
\* of Spec holds at most MaxEntries entries of Lines.
NextLines == IF Len(entries) < MaxEntries THEN Lines ELSE {}

Next ==
    \/ GithubBuild
    \/ GithubBuildErr
    \/ CachedDownload
    \/ CachedDownloadErr
    \/ ParseData
    \/ ParseDataErr
    \/ \E entry \in NextLines : SkipComponentGroup(entry)
    \/ \E entry \in NextLines : StatusComponent(entry)
    \/ \E entry \in NextLines : NoCanonicalVariant(entry)
    \/ \E entry \in NextLines : PushVariation(entry)
    \/ \E entry \in NextLines : UnrecognizedToneCombination(entry)
    \/ \E entry \in NextLines : PushEmoji(entry)
    \/ \E entry \in NextLines : NoDefaultToneSibling(entry)
    \/ \E entry \in NextLines : InsertTone(entry)
    \/ BuildReturn
    \/ GenerateRustCode
    \/ FsWrite
    \/ FsWriteErr

Spec == Init /\ [][Next]_vars

(***************************************************************************)
(* The same program on the registries that hold each entry of one family   *)
(* (the base glyph and its five single-tone siblings) at most once, in     *)
(* every order.                                                            *)
(***************************************************************************)
FamilyNextLines ==
    {entry \in FamilyLines : \A n \in 1..Len(entries) : entries[n] # entry}

NextFamily ==
    \/ GithubBuild
    \/ GithubBuildErr
    \/ CachedDownload
    \/ CachedDownloadErr
    \/ ParseData
    \/ ParseDataErr
    \/ \E entry \in FamilyNextLines : PushEmoji(entry)
    \/ \E entry \in FamilyNextLines : NoDefaultToneSibling(entry)
    \/ \E entry \in FamilyNextLines : InsertTone(entry)
    \/ BuildReturn
    \/ GenerateRustCode
    \/ FsWrite
    \/ FsWriteErr

SpecFamily == Init /\ [][NextFamily]_vars

(***************************************************************************)
(* Properties.                                                             *)
(***************************************************************************)
\* build() returned Ok(emojis) to main().
BuildReturned ==
    \/ pc \in {"emit", "write", "done"}
    \/ pc = "aborted" /\ err = "Write"

\* This step is an iteration of the for loop, on TakenEntry.
IterationStep == Len(entries') = Len(entries) + 1

TakenEntry == entries'[Len(entries')]

\* The positions of the records that the tone entries folded into the
\* record at position k created.
FoldedInto(k) ==
    {m \in 1..Len(emojis) :
        /\ origin[m] \in 1..Len(selected)
        /\ selected[origin[m]] = origin[k]}

\* C1: a registry made of the base entry of a family followed by its five
\* single-tone entries, in any order of the five, aggregates to the base
\* record with skin_tone Some(Default) and skin_tones 6, followed by the
\* five tone records in ascending SkinTone order, each with skin_tones 1.
C1_FamilySorted ==
    (BuildReturned /\ Len(entries) = 6 /\ entries[1] = WavingHand)
    => /\ Len(emojis) = 6
       /\ emojis[1].entry.emoji = WavingHand.emoji
       /\ emojis[1].skin_tone = Some("Default")
       /\ emojis[1].skin_tones = 6
       /\ emojis[1].variations = << >>
       /\ \A k \in 1..5 :
            /\ emojis[k + 1].entry.emoji = FamilyTones[k].emoji
            /\ emojis[k + 1].entry.name = FamilyTones[k].name
            /\ emojis[k + 1].skin_tone = Some(SkinTone[k + 1])
            /\ emojis[k + 1].skin_tones = 1

\* The five tone entries arrived in descending order and build() returned.
C1_Witness ==
    /\ pc = "done"
    /\ entries = <<WavingHand, HandDark, HandMediumDark, HandMedium,
                   HandMediumLight, HandLight>>
    /\ emojis[2].skin_tone = Some("Light")
    /\ emojis[6].skin_tone = Some("Dark")

\* C2: every record with skin_tone Some(Default) is immediately followed by
\* all the tone records folded into it, with no other record in between, and
\* those tone records are in non-decreasing SkinTone order.
C2_SiblingsContiguous ==
    \A k \in 1..Len(emojis) :
        emojis[k].skin_tone = Some("Default")
        => /\ FoldedInto(k) = (k + 1)..(k + Cardinality(FoldedInto(k)))
           /\ \A a, b \in FoldedInto(k) :
                a < b => ~OptionLt(emojis[b].skin_tone, emojis[a].skin_tone)

\* C3: the glyph of a MinimallyQualified or Unqualified entry is appended to
\* the variations of the record created by the most recent FullyQualified
\* entry before it.
C3_VariationOfMostRecent ==
    [][(/\ IterationStep
        /\ TakenEntry.group # "Component"
        /\ TakenEntry.status \in {"MinimallyQualified", "Unqualified"}
        /\ emojis # << >>)
       => \A k \in 1..Len(emojis) :
             (\A m \in 1..Len(emojis) : origin[m] <= origin[k])
             => /\ Len(emojis') = Len(emojis)
                /\ emojis'[k].variations =
                       Append(emojis[k].variations, TakenEntry.emoji)]_vars

\* The number of tone entries taken so far whose backward search selected
\* the record at position k.
SelectedCount(k) ==
    Cardinality({n \in 1..Len(selected) : selected[n] = origin[k]})

\* C4: every record with a non-default tone has skin_tones 1; every record
\* with skin_tone None or Some(Default) has skin_tones 1 plus the number of
\* tone entries whose backward search selected it; and an iteration changes
\* the skin_tones of no record but the one its backward search selected.
C4_SkinTonesCount ==
    /\ [](\A k \in 1..Len(emojis) :
            IF IsDefaultKind(emojis[k].skin_tone)
            THEN emojis[k].skin_tones = 1 + SelectedCount(k)
            ELSE emojis[k].skin_tones = 1)
    /\ [][\A k \in 1..Len(emojis) :
            \E m \in 1..Len(emojis') :
               /\ origin'[m] = origin[k]
               /\ \/ emojis'[m].skin_tones = emojis[k].skin_tones
                  \/ /\ IterationStep
                     /\ selected'[Len(selected')] = origin[k]
                     /\ ~IsDefaultKind(parse_skin_tone(TakenEntry).tone)]_vars

\* Two tone entries were folded into one record, which counts three.
C4_Witness ==
    \E k \in 1..Len(emojis) :
        /\ emojis[k].skin_tone = Some("Default")
        /\ emojis[k].skin_tones = 3
        /\ Cardinality(FoldedInto(k)) = 2

\* C5: an entry whose status is Component is discarded whatever its group:
\* the iteration that takes it changes no record, creates none and raises
\* no error.
C5_ComponentDiscarded ==
    [][(IterationStep /\ TakenEntry.status = "Component")
       => /\ emojis' = emojis
          /\ err' = ""
          /\ pc' = "aggregate"]_vars

\* C6: the table generate_rust_code returns holds, for each record of the
\* collection, every field of the record, the variations among them.
C6_EmittedVerbatim ==
    code # None
    => /\ Len(code[1]) = Len(emojis)
       /\ \A k \in 1..Len(emojis) :
            /\ code[1][k].entry = emojis[k].entry
            /\ code[1][k].skin_tones = emojis[k].skin_tones
            /\ code[1][k].skin_tone = emojis[k].skin_tone
            /\ code[1][k].variations = emojis[k].variations

\* The errors of retrieval, parsing and aggregation.
BuildErrors ==
    {"Catalog", "Retrieval", "Parse", "Unreachable", "NoCanonicalVariant",
     "UnrecognizedToneCombination", "NoDefaultToneSibling"}

\* C7: in a run where retrieval, parsing or aggregation fails, the table
\* file is never written and no table is generated; the file is written
\* only after build() returned, with the table of the whole collection.
C7_AllOrNothing ==
    /\ err \in BuildErrors => (pc = "aborted" /\ file = None /\ code = None)
    /\ pc \notin {"emit", "write", "done", "aborted"} => (file = None /\ code = None)
    /\ file # None
       => /\ pc = "done"
          /\ err = ""
          /\ file = code
          /\ Len(file[1]) = Len(emojis)
          /\ \A k \in 1..Len(emojis) :
                file[1][k].entry.emoji = emojis[k].entry.emoji

\* Aggregation failed after records had been aggregated.
C7_Witness ==
    /\ pc = "aborted"
    /\ err = "NoDefaultToneSibling"
    /\ Len(emojis) >= 2
    /\ file = None

\* C8 as stated: a MinimallyQualified or Unqualified entry that the loop
\* takes while the collection is empty makes build() fail with
\* NoCanonicalVariant; it creates no record and is not silently dropped.
C8_AnyGroup ==
    [][(/\ IterationStep
        /\ TakenEntry.status \in {"MinimallyQualified", "Unqualified"}
        /\ emojis = << >>)
       => /\ pc' = "aborted"
          /\ err' = "NoCanonicalVariant"
          /\ emojis' = << >>]_vars

\* C8, amended: a MinimallyQualified or Unqualified entry outside the
\* Component group that the loop takes while the collection is empty makes
\* build() fail with NoCanonicalVariant; it creates no record and is not
\* silently dropped.
C8_NoCanonicalVariant ==
    [][(/\ IterationStep
        /\ TakenEntry.group # "Component"
        /\ TakenEntry.status \in {"MinimallyQualified", "Unqualified"}
        /\ emojis = << >>)
       => /\ pc' = "aborted"
          /\ err' = "NoCanonicalVariant"
          /\ emojis' = << >>]_vars

\* A MinimallyQualified entry, after an entry of the Component group, found
\* the collection empty.
C8_Witness ==
    /\ pc = "aborted"
    /\ err = "NoCanonicalVariant"
    /\ emojis = << >>
    /\ entries = <<ComponentLight, CoupleMinimallyQualified>>

\* The collection holds a record with skin_tone None or Some(Default) in the
\* group and subgroup of `entry`.
HasDefaultSibling(entry) ==
    \E k \in 1..Len(emojis) :
        /\ emojis[k].skin_tone \in {None, Some("Default")}
        /\ emojis[k].entry.group = entry.group
        /\ emojis[k].entry.subgroup = entry.subgroup

\* C9: a FullyQualified entry classified with a non-default tone makes
\* build() fail with NoDefaultToneSibling exactly when the collection holds
\* no record with skin_tone None or Some(Default) in its group and subgroup,
\* and the failing iteration changes no record.
C9_NoDefaultToneSibling ==
    [][(/\ IterationStep
        /\ TakenEntry.group # "Component"
        /\ TakenEntry.status = "FullyQualified"
        /\ FilterTones(TakenEntry.emoji) # << >>
        /\ parse_skin_tone(TakenEntry).ok)
       => /\ (pc' = "aborted" /\ err' = "NoDefaultToneSibling")
             <=> ~HasDefaultSibling(TakenEntry)
          /\ ~HasDefaultSibling(TakenEntry) => emojis' = emojis
          /\ HasDefaultSibling(TakenEntry) => (pc' = "aggregate" /\ err' = "")]_vars

\* A tone entry failed although the collection holds a default record of
\* its group, in another subgroup.
C9_Witness ==
    /\ pc = "aborted"
    /\ err = "NoDefaultToneSibling"
    /\ entries[Len(entries)] = HandshakeLightDark
    /\ \E k \in 1..Len(emojis) :
          /\ emojis[k].entry.group = "PeopleAndBody"
          /\ emojis[k].skin_tone = None

\* C10: an iteration deletes no record and keeps the relative order of the
\* records of the collection, whose length never decreases; and the records
\* with skin_tone None or Some(Default) are in the order in which their
\* FullyQualified entries came in the registry.
C10_NeverDeletedNorReordered ==
    /\ [][/\ Len(emojis') >= Len(emojis)
          /\ \A k \in 1..Len(emojis) :
                \E m \in 1..Len(emojis') :
                   /\ origin'[m] = origin[k]
                   /\ emojis'[m].entry = emojis[k].entry
          /\ \A a, b \in 1..Len(emojis) :
                a < b =>
                  \E m, n \in 1..Len(emojis') :
                     m < n /\ origin'[m] = origin[a] /\ origin'[n] = origin[b]]_vars
    /\ [](/\ Len(origin) = Len(emojis)
          /\ \A k \in 1..Len(emojis) :
                /\ origin[k] \in 1..Len(entries)
                /\ entries[origin[k]].emoji = emojis[k].entry.emoji
                /\ entries[origin[k]].status = "FullyQualified"
          /\ \A a, b \in 1..Len(emojis) :
                (a < b /\ IsDefaultKind(emojis[a].skin_tone)
                       /\ IsDefaultKind(emojis[b].skin_tone))
                => origin[a] < origin[b])

\* A tone record was inserted in front of records aggregated before it.
C10_Witness ==
    /\ Len(emojis) >= 4
    /\ \E a, b \in 1..Len(emojis) : a < b /\ origin[a] > origin[b]
    /\ \E a, b \in 1..Len(emojis) :
          /\ a < b
          /\ emojis[a].skin_tone = Some("Default")
          /\ emojis[b].skin_tone = None


\* The record at position k was pushed for an entry without tone modifier:
\* it is the record of a family.
IsFamilyRecord(k) == parse_skin_tone(emojis[k].entry).tone = None

\* C11: when build() has returned, the record of every family into which no
\* tone entry was folded has skin_tone None and skin_tones 1.
C11_UntonedFamily ==
    BuildReturned =>
        \A k \in 1..Len(emojis) :
            (IsFamilyRecord(k) /\ SelectedCount(k) = 0) =>
                /\ emojis[k].skin_tone = None
                /\ emojis[k].skin_tones = 1

\* build() returned a family without tone entry next to a family with one.
C11_Witness ==
    /\ BuildReturned
    /\ \E k, m \in 1..Len(emojis) :
          /\ IsFamilyRecord(k) /\ SelectedCount(k) = 0
          /\ emojis[k].skin_tone = None
          /\ IsFamilyRecord(m) /\ SelectedCount(m) > 0
          /\ emojis[m].skin_tone = Some("Default")

\* C12: every record carries the tags, aliases and ios_version of the
\* catalog record of its glyph (the first one, should the catalog hold the
\* glyph twice), and empty tags, empty aliases and no ios_version when the
\* catalog holds no record of its glyph; an iteration raises none but the
\* loop's own four errors, so a missing match raises none; and the catalog
\* never changes once github::build() returned it.
C12_Enrichment ==
    /\ [](\A k \in 1..Len(emojis) :
            LET hits == {g \in 1..Len(gemojis) :
                            gemojis[g].emoji = emojis[k].entry.emoji}
            IN  IF hits = {}
                THEN /\ emojis[k].entry.tags = << >>
                     /\ emojis[k].entry.aliases = << >>
                     /\ emojis[k].entry.ios_version = None
                ELSE \E g \in hits :
                        /\ \A h \in hits : g <= h
                        /\ emojis[k].entry.tags = gemojis[g].tags
                        /\ emojis[k].entry.aliases = gemojis[g].aliases
                        /\ emojis[k].entry.ios_version
                              = Some(gemojis[g].ios_version))
    /\ [][/\ pc # "github_build" => gemojis' = gemojis
          /\ (IterationStep /\ err' # err) =>
                err' \in {"Unreachable", "NoCanonicalVariant",
                          "UnrecognizedToneCombination",
                          "NoDefaultToneSibling"}]_vars

\* build() returned a record enriched from the catalog next to a record the
\* catalog does not hold.
C12_Witness ==
    /\ BuildReturned
    /\ \E k, m \in 1..Len(emojis) :
          /\ emojis[k].entry.tags = <<"goodbye">>
          /\ emojis[k].entry.aliases = <<"wave">>
          /\ emojis[k].entry.ios_version = Some(Version(6, 0))
          /\ \A g \in 1..Len(gemojis) :
                gemojis[g].emoji # emojis[m].entry.emoji
          /\ emojis[m].entry.ios_version = None


(***************************************************************************)
(* Calls of the functions of the library, one call per behaviour: the      *)
(* call draws its arguments from a bounded set, `arg` keeps them and `ret` *)
(* the value returned.                                                     *)
(***************************************************************************)
\* The longest glyph given to parse_skin_tone.
MaxGlyph == 3

\* The sequences of at most n elements of S.
SeqUpTo(S, n) == UNION {[1..m -> S] : m \in 0..n}

\* U+1F44B, a character that is no modifier.
WavingHandChar == Head(WavingHand.emoji)

Modifiers ==
    {LightModifier, MediumLightModifier, MediumModifier, MediumDarkModifier,
     DarkModifier}

\* The glyphs given to parse_skin_tone: modifiers and other characters in
\* any number and order.
Glyphs == SeqUpTo(Modifiers \cup {WavingHandChar}, MaxGlyph)

\* The state before a call.
InitCall ==
    /\ pc = "call"
    /\ gemojis = << >>
    /\ entries = << >>
    /\ emojis = << >>
    /\ err = ""
    /\ code = None
    /\ file = None
    /\ origin = << >>
    /\ selected = << >>
    /\ lines_read = << >>
    /\ current_group = << >>
    /\ current_subgroup = << >>
    /\ arg = << >>
    /\ ret = << >>
    /\ InitUi

\* The call fn(a) returning r.
Call(fn, a, r) ==
    /\ pc = "call"
    /\ pc' = fn
    /\ arg' = a
    /\ ret' = r
    /\ UNCHANGED <<entries, err, main_vars, parse_vars, ui_vars>>

\* unicode/mod.rs:191-237
CallParseSkinTone ==
    \E glyph \in Glyphs :
        Call("parse_skin_tone", glyph, parse_skin_tone([emoji |-> glyph]))

NextSkinTone == CallParseSkinTone

SpecSkinTone == InitCall /\ [][NextSkinTone]_vars

\* The modifiers of a glyph, in the order of the glyph.
ModifiersOf(glyph) == SelectSeq(glyph, LAMBDA c : c \in Modifiers)

\* The name of the base tone of a modifier, by its offset from U+1F3FB.
BaseTone(c) == SkinTone[c - LightModifier + 2]

\* The pair variants of SkinTone: the twenty that follow the six base ones.
PairVariants == {SkinTone[k] : k \in 7..Len(SkinTone)}

BaseTones == {"Light", "MediumLight", "Medium", "MediumDark", "Dark"}

\* C16: parse_skin_tone returns None for a glyph without modifier, the base
\* tone of the modifier for a glyph with one, the pair variant named a-And-b
\* for a glyph with two different modifiers a then b, the base tone for a
\* glyph with twice the same modifier, UnrecognizedToneCombination for a
\* glyph with three modifiers or more, and never Some(Default); and the
\* pair arms map the twenty ordered pairs of different base tones one to
\* one onto the twenty pair variants.
C16_Classification ==
    /\ pc = "parse_skin_tone" =>
          LET m == ModifiersOf(arg)
          IN  /\ Len(m) = 0 => ret = [ok |-> TRUE, tone |-> None]
              /\ Len(m) = 1 =>
                    ret = [ok |-> TRUE, tone |-> Some(BaseTone(m[1]))]
              /\ (Len(m) = 2 /\ m[1] # m[2]) =>
                    ret = [ok |-> TRUE,
                           tone |-> Some(BaseTone(m[1]) \o "And"
                                            \o BaseTone(m[2]))]
              /\ (Len(m) = 2 /\ m[1] = m[2]) =>
                    ret = [ok |-> TRUE, tone |-> Some(BaseTone(m[1]))]
              /\ Len(m) >= 3 => ret = [ok |-> FALSE, tone |-> None]
              /\ ret.tone # Some("Default")
    /\ \A a, b, c, d \in BaseTones :
          (a # b /\ c # d /\ PairTone(a, b) = PairTone(c, d)) =>
              (a = c /\ b = d)
    /\ {PairTone(a, b)[1] : <<a, b>> \in {p \in BaseTones \X BaseTones :
                                            p[1] # p[2]}} = PairVariants

\* parse_skin_tone returned the pair variant of two different modifiers
\* that another character separates.
C16_Witness ==
    /\ pc = "parse_skin_tone"
    /\ arg = <<DarkModifier, WavingHandChar, LightModifier>>
    /\ ret = [ok |-> TRUE, tone |-> Some("DarkAndLight")]


(***************************************************************************)
(* Text.  A &str or String the code takes apart is the sequence of the     *)
(* code points of its characters: "E1.0" is <<69, 49, 46, 48>>.            *)
(***************************************************************************)
\* Result<T, E>
Ok(x) == [ok |-> TRUE, val |-> x]

Err(e) == [ok |-> FALSE, val |-> e]

\* char::is_whitespace: the characters of the Unicode property White_Space.
IsWhitespace(c) ==
    c \in (9..13) \cup {32, 133, 160, 5760} \cup (8192..8202)
             \cup {8232, 8233, 8239, 8287, 12288}

\* str::trim_start, str::trim_end and str::trim
RECURSIVE TrimStart(_)
TrimStart(s) ==
    IF s # << >> /\ IsWhitespace(Head(s)) THEN TrimStart(Tail(s)) ELSE s

RECURSIVE TrimEnd(_)
TrimEnd(s) ==
    IF s # << >> /\ IsWhitespace(s[Len(s)])
    THEN TrimEnd(SubSeq(s, 1, Len(s) - 1))
    ELSE s

Trim(s) == TrimEnd(TrimStart(s))

\* char::to_lowercase and char::to_uppercase on the ASCII letters; the
\* other characters of the texts of this model have no case.
ToLowerChar(c) == IF c \in 65..90 THEN c + 32 ELSE c

ToUpperChar(c) == IF c \in 97..122 THEN c - 32 ELSE c

\* str::to_lowercase
ToLowercase(s) == [k \in 1..Len(s) |-> ToLowerChar(s[k])]

(***************************************************************************)
(* unicode-types: Group::as_str and Group::try_from.                       *)
(***************************************************************************)
\* lib.rs:176-187, the array the loop of try_from runs over.
GroupVariants ==
    << "SmileysAndEmotion", "PeopleAndBody", "AnimalsAndNature",
       "FoodAndDrink", "TravelAndPlaces", "Activities", "Objects", "Symbols",
       "Flags", "Component" >>

\* lib.rs:198-211, the string of each variant:
\*   SmileysAndEmotion  "Smileys & Emotion"
\*   PeopleAndBody      "People & Body"
\*   AnimalsAndNature   "Animals & Nature"
\*   FoodAndDrink       "Food & Drink"
\*   TravelAndPlaces    "Travel & Places"
\*   Activities         "Activities"
\*   Objects            "Objects"
\*   Symbols            "Symbols"
\*   Flags              "Flags"
\*   Component          "Component"
as_str(g) ==
    CASE g = "SmileysAndEmotion" ->
            <<83, 109, 105, 108, 101, 121, 115, 32, 38, 32, 69, 109, 111,
            116, 105, 111, 110>>
      [] g = "PeopleAndBody" ->
            <<80, 101, 111, 112, 108, 101, 32, 38, 32, 66, 111, 100, 121>>
      [] g = "AnimalsAndNature" ->
            <<65, 110, 105, 109, 97, 108, 115, 32, 38, 32, 78, 97, 116, 117,
            114, 101>>
      [] g = "FoodAndDrink" ->
            <<70, 111, 111, 100, 32, 38, 32, 68, 114, 105, 110, 107>>
      [] g = "TravelAndPlaces" ->
            <<84, 114, 97, 118, 101, 108, 32, 38, 32, 80, 108, 97, 99, 101,
            115>>
      [] g = "Activities" ->
            <<65, 99, 116, 105, 118, 105, 116, 105, 101, 115>>
      [] g = "Objects" ->
            <<79, 98, 106, 101, 99, 116, 115>>
      [] g = "Symbols" ->
            <<83, 121, 109, 98, 111, 108, 115>>
      [] g = "Flags" ->
            <<70, 108, 97, 103, 115>>
      [] g = "Component" ->
            <<67, 111, 109, 112, 111, 110, 101, 110, 116>>

\* Group::try_from with the string trimmed before the comparison.
GroupTryFromTrimmed(s) ==
    LET hits == {k \in 1..Len(GroupVariants) :
                    as_str(GroupVariants[k]) = Trim(s)}
    IN  IF hits = {} THEN Err("invalid group")
        ELSE Ok(GroupVariants[CHOOSE k \in hits : \A m \in hits : k <= m])

\* lib.rs:172-194: Ok of the first variant of the array whose string is s,
\* Err when the loop ends.
GroupTryFrom(s) ==
    LET hits == {k \in 1..Len(GroupVariants) : as_str(GroupVariants[k]) = s}
    IN  IF hits = {} THEN Err("invalid group")
        ELSE Ok(GroupVariants[CHOOSE k \in hits : \A m \in hits : k <= m])

\* The number of edits that separate a string given to Group::try_from from
\* the string of a variant.
MaxEdits == 1

\* The strings one edit away from s: a character removed, the case of a
\* letter changed, a space or a tab added in front or behind.
Edits(s) ==
    {SubSeq(s, 1, p - 1) \o SubSeq(s, p + 1, Len(s)) : p \in 1..Len(s)}
    \cup {[s EXCEPT ![p] = ToLowerChar(s[p])] : p \in 1..Len(s)}
    \cup {[s EXCEPT ![p] = ToUpperChar(s[p])] : p \in 1..Len(s)}
    \cup {<<c>> \o s : c \in {9, 32}}
    \cup {s \o <<c>> : c \in {9, 32}}

RECURSIVE EditsUpTo(_, _)
EditsUpTo(S, n) ==
    IF n = 0 THEN S ELSE EditsUpTo(S \cup UNION {Edits(s) : s \in S}, n - 1)

\* The strings given to Group::try_from: the strings of the ten variants
\* and the strings at most MaxEdits edits away from them.
GroupStrings == EditsUpTo({as_str(g) : g \in Group}, MaxEdits)

\* lib.rs:172-194
CallGroupTryFrom ==
    \E s \in GroupStrings : Call("Group::try_from", s, GroupTryFrom(s))

NextGroup == CallGroupTryFrom

SpecGroup == InitCall /\ [][NextGroup]_vars

\* C19: Group::try_from(g.as_str()) is Ok(g) for each of the ten variants,
\* the ten strings are pairwise distinct, and Group::try_from fails on every
\* string that is not exactly one of the ten, among them the strings that
\* differ from one of the ten by the case of a letter or by whitespace in
\* front or behind.
C19_RoundTrip ==
    /\ \A g \in Group : GroupTryFrom(as_str(g)) = Ok(g)
    /\ \A g, h \in Group : as_str(g) = as_str(h) => g = h
    /\ pc = "Group::try_from" =>
          /\ ret.ok <=> arg \in {as_str(g) : g \in Group}
          /\ ret.ok => (ret.val \in Group /\ as_str(ret.val) = arg)
          /\ ~ret.ok => ret = Err("invalid group")

\* Group::try_from failed on "flags", the string of Flags in lower case.
C19_Witness ==
    /\ pc = "Group::try_from"
    /\ arg = ToLowercase(as_str("Flags"))
    /\ arg # as_str("Flags")
    /\ ret = Err("invalid group")


(***************************************************************************)
(* unicode-types: Emoji::matches_search.                                   *)
(***************************************************************************)
\* str::contains(&q): q occurs in s at some offset.
Contains(s, q) ==
    \E i \in 0..(Len(s) - Len(q)) : SubSeq(s, i + 1, i + Len(q)) = q

\* matches_search that compares with the query as it was typed.
MatchesSearchAsTyped(emoji, q) ==
    IF q = << >> THEN TRUE
    ELSE IF Contains(ToLowercase(emoji.entry.emoji), q) THEN TRUE
    ELSE IF Contains(ToLowercase(emoji.entry.name), q) THEN TRUE
    ELSE IF Contains(ToLowercase(emoji.entry.subgroup), q) THEN TRUE
    ELSE IF \E t \in 1..Len(emoji.entry.tags) :
                Contains(ToLowercase(emoji.entry.tags[t]), q) THEN TRUE
    ELSE IF \E a \in 1..Len(emoji.entry.aliases) :
                Contains(ToLowercase(emoji.entry.aliases[a]), q) THEN TRUE
    ELSE FALSE

\* lib.rs:219-244
matches_search(emoji, query) ==
    IF query = << >> THEN TRUE
    ELSE LET q == ToLowercase(query)
         IN  IF Contains(ToLowercase(emoji.entry.emoji), q) THEN TRUE
             ELSE IF Contains(ToLowercase(emoji.entry.name), q) THEN TRUE
             ELSE IF Contains(ToLowercase(emoji.entry.subgroup), q) THEN TRUE
             ELSE IF \E t \in 1..Len(emoji.entry.tags) :
                         Contains(ToLowercase(emoji.entry.tags[t]), q)
                  THEN TRUE
             ELSE IF \E a \in 1..Len(emoji.entry.aliases) :
                         Contains(ToLowercase(emoji.entry.aliases[a]), q)
                  THEN TRUE
             ELSE FALSE

\* The longest query given to matches_search.
MaxQuery == 3

\* A record of the table: U+1F44B, name "Wave", subgroup "hand", tag "hi",
\* alias "yo", in People & Body, with the variation U+270B.
TableWave ==
    [entry |->
        [group |-> "PeopleAndBody",
         subgroup |-> <<104, 97, 110, 100>>,
         status |-> "FullyQualified",
         unicode_version |-> Version(0, 6),
         emoji |-> <<128075>>,
         name |-> <<87, 97, 118, 101>>,
         ios_version |-> Some(Version(6, 0)),
         tags |-> << <<104, 105>> >>,
         aliases |-> << <<121, 111>> >>],
     skin_tones |-> 1,
     skin_tone |-> None,
     variations |-> << <<9995>> >>]

\* A record without tag, alias and variation: U+263A U+FE0F, name "Hi",
\* subgroup "we", in Smileys & Emotion.
TableSmile ==
    [entry |->
        [group |-> "SmileysAndEmotion",
         subgroup |-> <<119, 101>>,
         status |-> "FullyQualified",
         unicode_version |-> Version(0, 6),
         emoji |-> <<9786, 65039>>,
         name |-> <<72, 105>>,
         ios_version |-> None,
         tags |-> << >>,
         aliases |-> << >>],
     skin_tones |-> 1,
     skin_tone |-> None,
     variations |-> << >>]

TableRecords == {TableWave, TableSmile}

\* The characters of the queries: w W A a h i y p 6, U+1F44B and U+270B.
QueryChars == {119, 87, 65, 97, 104, 105, 121, 112, 54, 128075, 9995}

Queries == SeqUpTo(QueryChars, MaxQuery)

\* lib.rs:219-244
CallMatchesSearch ==
    \E emoji \in TableRecords, q \in Queries :
        Call("matches_search", [emoji |-> emoji, q |-> q],
             matches_search(emoji, q))

NextSearch == CallMatchesSearch

SpecSearch == InitCall /\ [][NextSearch]_vars

\* The texts matches_search may look into: the glyph, the name, the
\* subgroup, the tags and the aliases.
SearchedTexts(emoji) ==
    {emoji.entry.emoji, emoji.entry.name, emoji.entry.subgroup}
    \cup {emoji.entry.tags[t] : t \in 1..Len(emoji.entry.tags)}
    \cup {emoji.entry.aliases[a] : a \in 1..Len(emoji.entry.aliases)}

\* s is t between two of its positions.
IsSubstring(s, t) ==
    \E a \in 0..Len(t) : \E b \in a..Len(t) : SubSeq(t, a + 1, b) = s

\* The record with other values in the fields besides the searched ones.
OtherUnsearched(emoji) ==
    [emoji EXCEPT !.entry.group = "Flags", !.entry.status = "Component",
                  !.entry.unicode_version = Version(15, 1),
                  !.entry.ios_version = Some(Version(17, 4)),
                  !.variations = << <<104, 105>>, <<119>> >>,
                  !.skin_tones = 6, !.skin_tone = Some("Default")]

\* C20: matches_search(q) is true exactly when q is empty or q in lower
\* case is a substring of the glyph, the name, the subgroup, a tag or an
\* alias in lower case; and the group, the status, the versions and the
\* variations of the record have no part in the result.
C20_MatchesSearch ==
    pc = "matches_search" =>
        /\ ret <=>
              \/ arg.q = << >>
              \/ \E t \in SearchedTexts(arg.emoji) :
                    IsSubstring(ToLowercase(arg.q), ToLowercase(t))
        /\ ret = matches_search(OtherUnsearched(arg.emoji), arg.q)

\* The query "WA" found the record named "Wave".
C20_Witness ==
    /\ pc = "matches_search"
    /\ arg = [emoji |-> TableWave, q |-> <<87, 65>>]
    /\ ret = TRUE


(***************************************************************************)
(* Version tokens: Version::try_from of unicode-types, which reads the     *)
(* ios_version of a catalog record, and parse_unicode_version of the       *)
(* registry parser.                                                        *)
(***************************************************************************)
\* A panic: the call does not return, the thread unwinds.
Panic(msg) == [ok |-> FALSE, val |-> msg, panic |-> TRUE]

\* str::split_once(c): Some((before, after)) of the first c of s, None when
\* s holds no c.
SplitOnce(s, c) ==
    IF \E p \in 1..Len(s) : s[p] = c
    THEN LET p == CHOOSE p \in 1..Len(s) :
                     s[p] = c /\ \A m \in 1..(p - 1) : s[m] # c
         IN  Some(<<SubSeq(s, 1, p - 1), SubSeq(s, p + 1, Len(s))>>)
    ELSE None

\* str::strip_prefix(prefix)
StripPrefix(s, prefix) ==
    IF Len(s) >= Len(prefix) /\ SubSeq(s, 1, Len(prefix)) = prefix
    THEN Some(SubSeq(s, Len(prefix) + 1, Len(s)))
    ELSE None

IsDigit(c) == c \in 48..57

\* The number a string of decimal digits writes.
RECURSIVE DecimalValue(_)
DecimalValue(digits) ==
    IF digits = << >> THEN 0
    ELSE 10 * DecimalValue(SubSeq(digits, 1, Len(digits) - 1))
            + (digits[Len(digits)] - 48)

\* str::parse::<i16>(): an optional sign and at least one decimal digit,
\* of a value an i16 holds; a ParseIntError for every other string.
ParseI16(s) ==
    LET signed == s # << >> /\ s[1] \in {43, 45}
        digits == IF signed THEN Tail(s) ELSE s
        value == IF signed /\ s[1] = 45 THEN 0 - DecimalValue(digits)
                 ELSE DecimalValue(digits)
    IN  IF digits = << >> THEN Err("ParseIntError")
        ELSE IF \E k \in 1..Len(digits) : ~IsDigit(digits[k])
        THEN Err("ParseIntError")
        ELSE IF value < -32768 \/ value > 32767 THEN Err("ParseIntError")
        ELSE Ok(value)

\* lib.rs:40-56, <Version as TryFrom<&str>>::try_from; lib.rs:29-38,
\* Version::deserialize, returns its result for the string of the catalog.
VersionTryFrom(s) ==
    LET split == SplitOnce(s, 46)
    IN  IF split = None THEN Panic("called Option::unwrap() on a None value")
        ELSE LET major == ParseI16(split[1][1])
                 minor == ParseI16(split[1][2])
             IN  IF ~major.ok THEN Err("Invalid major version")
                 ELSE IF ~minor.ok THEN Err("Invalid minor version")
                 ELSE Ok(Version(major.val, minor.val))

\* unicode/mod.rs:94-101
parse_unicode_version(s) ==
    LET stripped == StripPrefix(s, <<69>>)
    IN  IF stripped = None THEN Err("missing 'E'")
        ELSE LET split == SplitOnce(stripped[1], 46)
             IN  IF split = None THEN Err("missing decimal")
                 ELSE LET major == ParseI16(split[1][1])
                          minor == ParseI16(split[1][2])
                      IN  IF ~major.ok THEN major
                          ELSE IF ~minor.ok THEN minor
                          ELSE Ok(Version(major.val, minor.val))

\* The longest version token drawn from TokenChars.
MaxToken == 4

\* E . 1 9 x -
TokenChars == {69, 46, 49, 57, 120, 45}

\* The version tokens: every string of at most MaxToken characters of
\* TokenChars, and the tokens at the ends of the range of i16:
\* "E32767.0" "E32768.0" "E0.32768" "E-32768.1" "E-32769.1" "32767.0"
\* "32768.0" "0.32768" "-32768.1" "-32769.1" "E15.1" "17.4" "E+1.0" "6"
Tokens ==
    SeqUpTo(TokenChars, MaxToken)
    \cup {
          <<69, 51, 50, 55, 54, 55, 46, 48>>,
          <<69, 51, 50, 55, 54, 56, 46, 48>>,
          <<69, 48, 46, 51, 50, 55, 54, 56>>,
          <<69, 45, 51, 50, 55, 54, 56, 46, 49>>,
          <<69, 45, 51, 50, 55, 54, 57, 46, 49>>,
          <<51, 50, 55, 54, 55, 46, 48>>,
          <<51, 50, 55, 54, 56, 46, 48>>,
          <<48, 46, 51, 50, 55, 54, 56>>,
          <<45, 51, 50, 55, 54, 56, 46, 49>>,
          <<45, 51, 50, 55, 54, 57, 46, 49>>,
          <<69, 49, 53, 46, 49>>,
          <<49, 55, 46, 52>>,
          <<69, 43, 49, 46, 48>>,
          <<54>> }

\* unicode/mod.rs:94-101, on the version token of a registry line
CallParseUnicodeVersion ==
    \E s \in Tokens :
        Call("parse_unicode_version", s, parse_unicode_version(s))

\* lib.rs:29-56, on the ios_version string of a catalog record
CallVersionTryFrom ==
    \E s \in Tokens : Call("Version::try_from", s, VersionTryFrom(s))

NextVersion == CallParseUnicodeVersion \/ CallVersionTryFrom

SpecVersion == InitCall /\ [][NextVersion]_vars

\* s writes an i16: an optional sign, then decimal digits of a value
\* between -32768 and 32767.
IsI16(s) ==
    \E d \in {s} \cup (IF s # << >> /\ s[1] \in {43, 45} THEN {Tail(s)} ELSE {}) :
        /\ d # << >>
        /\ \A k \in 1..Len(d) : IsDigit(d[k])
        /\ (IF d # s /\ s[1] = 45 THEN 0 - DecimalValue(d) ELSE DecimalValue(d))
              \in -32768..32767

\* s is major.minor, both an i16, the split at the first `.`.
IsVersion(s) ==
    \E p \in 1..Len(s) :
        /\ s[p] = 46
        /\ \A m \in 1..(p - 1) : s[m] # 46
        /\ IsI16(SubSeq(s, 1, p - 1))
        /\ IsI16(SubSeq(s, p + 1, Len(s)))

\* C17: every invalid version token makes the parsing return an error
\* value and never crash: a registry token that is not E followed by
\* major.minor, and a catalog token that is not major.minor, where major
\* and minor are decimal numbers an i16 holds.
C17_InvalidVersion ==
    /\ pc = "parse_unicode_version" =>
          /\ "panic" \notin DOMAIN ret
          /\ ret.ok <=> (arg # << >> /\ arg[1] = 69 /\ IsVersion(Tail(arg)))
    /\ pc = "Version::try_from" =>
          /\ "panic" \notin DOMAIN ret
          /\ ret.ok <=> IsVersion(arg)

\* C17, the registry half: parse_unicode_version returns Ok on E followed
\* by major.minor and an error value on every other token.
C17_RegistryToken ==
    pc = "parse_unicode_version" =>
        /\ "panic" \notin DOMAIN ret
        /\ ret.ok <=> (arg # << >> /\ arg[1] = 69 /\ IsVersion(Tail(arg)))

\* C17, the catalog half without the tokens that hold no `.`:
\* Version::try_from returns Ok on major.minor and an error value on every
\* other token that holds a `.`.
C17_CatalogTokenWithDot ==
    (pc = "Version::try_from" /\ SplitOnce(arg, 46) # None) =>
        /\ "panic" \notin DOMAIN ret
        /\ ret.ok <=> IsVersion(arg)


(***************************************************************************)
(* The registry parser: parse_entry and the functions it calls.  An Err    *)
(* carries the message of the source; the error kinds of the design are    *)
(* MissingGroup "missing group", MissingSubgroup "missing subgroup",       *)
(* UnknownGroup "invalid group", UnknownStatus "invalid status",           *)
(* EmojiMismatch "emoji mismatch", InvalidScalarValue "invalid Unicode     *)
(* scalar value", MalformedLine the "expected ..." messages.               *)
(***************************************************************************)
\* The position of the first whitespace character of s, 0 when it has none.
FirstWhitespace(s) ==
    IF \E p \in 1..Len(s) : IsWhitespace(s[p])
    THEN CHOOSE p \in 1..Len(s) :
            IsWhitespace(s[p]) /\ \A m \in 1..(p - 1) : ~IsWhitespace(s[m])
    ELSE 0

\* s.splitn(3, char::is_whitespace): s cut at its first two whitespace
\* characters, in at most three pieces; one piece, s itself, when s holds
\* no whitespace.
Splitn3(s) ==
    LET p == FirstWhitespace(s)
        r == SubSeq(s, p + 1, Len(s))
        q == FirstWhitespace(r)
    IN  IF p = 0 THEN <<s>>
        ELSE IF q = 0 THEN <<SubSeq(s, 1, p - 1), r>>
        ELSE <<SubSeq(s, 1, p - 1), SubSeq(r, 1, q - 1),
               SubSeq(r, q + 1, Len(r))>>

\* u8::is_ascii_whitespace: space, tab, line feed, form feed, carriage return
IsAsciiWhitespace(c) == c \in {32, 9, 10, 12, 13}

\* s.split_ascii_whitespace(): the maximal runs of s without ASCII
\* whitespace, in order.
RECURSIVE SplitAsciiWhitespace(_)
SplitAsciiWhitespace(s) ==
    IF s = << >> THEN << >>
    ELSE IF IsAsciiWhitespace(Head(s)) THEN SplitAsciiWhitespace(Tail(s))
    ELSE LET stops == {p \in 1..Len(s) : IsAsciiWhitespace(s[p])}
             n == IF stops = {} THEN Len(s)
                  ELSE (CHOOSE p \in stops : \A m \in stops : p <= m) - 1
         IN  <<SubSeq(s, 1, n)>>
                \o SplitAsciiWhitespace(SubSeq(s, n + 1, Len(s)))

IsHexDigit(c) == c \in (48..57) \cup (65..70) \cup (97..102)

HexDigit(c) ==
    IF c \in 48..57 THEN c - 48 ELSE IF c \in 65..70 THEN c - 55 ELSE c - 87

\* The number a string of hexadecimal digits writes.
RECURSIVE HexValue(_)
HexValue(digits) ==
    IF digits = << >> THEN 0
    ELSE 16 * HexValue(SubSeq(digits, 1, Len(digits) - 1))
            + HexDigit(digits[Len(digits)])

\* s without its leading zeros.
RECURSIVE StripZeros(_)
StripZeros(s) ==
    IF s # << >> /\ Head(s) = 48 THEN StripZeros(Tail(s)) ELSE s

\* u32::from_str_radix(s, 16): an optional `+` and at least one hexadecimal
\* digit, of a value a u32 holds, which is one of at most eight digits
\* after the leading zeros; a ParseIntError for every other string.  A
\* value of seven or eight digits is returned as 16^6: char::from_u32 is
\* all that reads it and refuses every value above U+10FFFF.
ParseHexU32(s) ==
    LET digits == IF s # << >> /\ s[1] = 43 THEN Tail(s) ELSE s
    IN  IF digits = << >> THEN Err("ParseIntError")
        ELSE IF \E k \in 1..Len(digits) : ~IsHexDigit(digits[k])
        THEN Err("ParseIntError")
        ELSE IF Len(StripZeros(digits)) > 8 THEN Err("ParseIntError")
        ELSE IF Len(StripZeros(digits)) > 6 THEN Ok(16777216)
        ELSE Ok(HexValue(StripZeros(digits)))

\* char::from_u32: None for a surrogate and above U+10FFFF.
CharFromU32(v) ==
    IF v \in 55296..57343 \/ v > 1114111 THEN None ELSE Some(v)

\* unicode/mod.rs:103-110: Ok(the characters of the code points of s), or
\* the error of the first code point that has one.
RECURSIVE CollectCodePoints(_)
CollectCodePoints(tokens) ==
    IF tokens = << >> THEN Ok(<< >>)
    ELSE LET cp == ParseHexU32(Head(tokens))
         IN  IF ~cp.ok THEN cp
             ELSE IF CharFromU32(cp.val) = None
             THEN Err("invalid Unicode scalar value")
             ELSE LET rest == CollectCodePoints(Tail(tokens))
                  IN  IF ~rest.ok THEN rest
                      ELSE Ok(CharFromU32(cp.val) \o rest.val)

parse_code_points(s) == CollectCodePoints(SplitAsciiWhitespace(s))

\* unicode/mod.rs:84-92
parse_status(s) ==
    CASE \* "fully-qualified"
         s = <<102, 117, 108, 108, 121, 45, 113, 117, 97, 108, 105, 102, 105,
            101, 100>> ->
            Ok("FullyQualified")
      [] \* "minimally-qualified"
         s = <<109, 105, 110, 105, 109, 97, 108, 108, 121, 45, 113, 117, 97,
            108, 105, 102, 105, 101, 100>> ->
            Ok("MinimallyQualified")
      [] \* "unqualified"
         s = <<117, 110, 113, 117, 97, 108, 105, 102, 105, 101, 100>> ->
            Ok("Unqualified")
      [] \* "component"
         s = <<99, 111, 109, 112, 111, 110, 101, 110, 116>> ->
            Ok("Component")
      [] OTHER -> Err("invalid status")

\* parse_entry without the comparison of unicode/mod.rs:67-69.
ParseEntryUnchecked(g, sg, line) ==
    LET a == SplitOnce(line, 59)
    IN  IF a = None THEN Err("expected code points")
        ELSE LET b == SplitOnce(a[1][2], 35)
             IN  IF b = None THEN Err("expected status")
                 ELSE LET rest == Splitn3(Trim(b[1][2]))
                          cps == parse_code_points(a[1][1])
                          status == parse_status(Trim(b[1][1]))
                          version == IF Len(rest) >= 2
                                     THEN parse_unicode_version(Trim(rest[2]))
                                     ELSE Err("")
                      IN  IF Len(rest) < 2
                          THEN Err("expected unicode version")
                          ELSE IF Len(rest) < 3 THEN Err("expected name")
                          ELSE IF ~cps.ok THEN cps
                          ELSE IF ~status.ok THEN status
                          ELSE IF ~version.ok THEN version
                          ELSE Ok([group |-> g,
                                   subgroup |-> sg,
                                   status |-> status.val,
                                   unicode_version |-> version.val,
                                   emoji |-> rest[1],
                                   name |-> rest[3],
                                   ios_version |-> None,
                                   tags |-> << >>,
                                   aliases |-> << >>])

\* unicode/mod.rs:56-82.  splitn(3, ..) always yields its first piece, so
\* "expected emoji" never arises, and never a fourth one, so "unexpected
\* extra data" never arises.
parse_entry(g, sg, line) ==
    LET a == SplitOnce(line, 59)
    IN  IF a = None THEN Err("expected code points")
        ELSE LET b == SplitOnce(a[1][2], 35)
             IN  IF b = None THEN Err("expected status")
                 ELSE LET rest == Splitn3(Trim(b[1][2]))
                          cps == parse_code_points(a[1][1])
                          status == parse_status(Trim(b[1][1]))
                          version == IF Len(rest) >= 2
                                     THEN parse_unicode_version(Trim(rest[2]))
                                     ELSE Err("")
                      IN  IF Len(rest) < 2
                          THEN Err("expected unicode version")
                          ELSE IF Len(rest) < 3 THEN Err("expected name")
                          ELSE IF ~cps.ok THEN cps
                          ELSE IF rest[1] # cps.val THEN Err("emoji mismatch")
                          ELSE IF ~status.ok THEN status
                          ELSE IF ~version.ok THEN version
                          ELSE Ok([group |-> g,
                                   subgroup |-> sg,
                                   status |-> status.val,
                                   unicode_version |-> version.val,
                                   emoji |-> rest[1],
                                   name |-> rest[3],
                                   ios_version |-> None,
                                   tags |-> << >>,
                                   aliases |-> << >>])

(***************************************************************************)
(* The lines of the registry text given to parse_emoji_data.               *)
(***************************************************************************)
\* "# group: Smileys & Emotion"
GroupSmileys ==
    <<35, 32, 103, 114, 111, 117, 112, 58, 32, 83, 109, 105, 108, 101, 121,
    115, 32, 38, 32, 69, 109, 111, 116, 105, 111, 110>>

\* "# group: Bogus"
GroupBogus ==
    <<35, 32, 103, 114, 111, 117, 112, 58, 32, 66, 111, 103, 117, 115>>

\* "# group:   "
GroupBlank ==
    <<35, 32, 103, 114, 111, 117, 112, 58, 32, 32, 32>>

\* "# subgroup: face-smiling"
SubgroupFaceSmiling ==
    <<35, 32, 115, 117, 98, 103, 114, 111, 117, 112, 58, 32, 102, 97, 99,
    101, 45, 115, 109, 105, 108, 105, 110, 103>>

\* "# Format: code points; status # emoji name"
CommentLine ==
    <<35, 32, 70, 111, 114, 109, 97, 116, 58, 32, 99, 111, 100, 101, 32,
    112, 111, 105, 110, 116, 115, 59, 32, 115, 116, 97, 116, 117, 115, 32,
    35, 32, 101, 109, 111, 106, 105, 32, 110, 97, 109, 101>>

\* ""
EmptyLine ==
    << >>

\* "1F600 ; fully-qualified # U+1F600 E1.0 grinning face"
GrinningFace ==
    <<49, 70, 54, 48, 48, 32, 59, 32, 102, 117, 108, 108, 121, 45, 113, 117,
    97, 108, 105, 102, 105, 101, 100, 32, 35, 32, 128512, 32, 69, 49, 46,
    48, 32, 103, 114, 105, 110, 110, 105, 110, 103, 32, 102, 97, 99, 101>>

\* "263A FE0F ; fully-qualified # U+263A U+FE0F E0.6 smiling face"
SmilingFaceLine ==
    <<50, 54, 51, 65, 32, 70, 69, 48, 70, 32, 59, 32, 102, 117, 108, 108,
    121, 45, 113, 117, 97, 108, 105, 102, 105, 101, 100, 32, 35, 32, 9786,
    65039, 32, 69, 48, 46, 54, 32, 115, 109, 105, 108, 105, 110, 103, 32,
    102, 97, 99, 101>>

\* "1F603 ; fully-qualified # U+1F600 E1.0 grinning face"
GrinningMismatch ==
    <<49, 70, 54, 48, 51, 32, 59, 32, 102, 117, 108, 108, 121, 45, 113, 117,
    97, 108, 105, 102, 105, 101, 100, 32, 35, 32, 128512, 32, 69, 49, 46,
    48, 32, 103, 114, 105, 110, 110, 105, 110, 103, 32, 102, 97, 99, 101>>

\* "1F600 ; qualified # U+1F600 E1.0 grinning face"
GrinningBadStatus ==
    <<49, 70, 54, 48, 48, 32, 59, 32, 113, 117, 97, 108, 105, 102, 105, 101,
    100, 32, 35, 32, 128512, 32, 69, 49, 46, 48, 32, 103, 114, 105, 110,
    110, 105, 110, 103, 32, 102, 97, 99, 101>>

\* "1F603 ; qualified # U+1F600 E1.0 grinning face"
GrinningMismatchBadStatus ==
    <<49, 70, 54, 48, 51, 32, 59, 32, 113, 117, 97, 108, 105, 102, 105, 101,
    100, 32, 35, 32, 128512, 32, 69, 49, 46, 48, 32, 103, 114, 105, 110,
    110, 105, 110, 103, 32, 102, 97, 99, 101>>

\* "1F600 ; fully-qualified # U+1F600 1.0 grinning face"
GrinningBadVersion ==
    <<49, 70, 54, 48, 48, 32, 59, 32, 102, 117, 108, 108, 121, 45, 113, 117,
    97, 108, 105, 102, 105, 101, 100, 32, 35, 32, 128512, 32, 49, 46, 48,
    32, 103, 114, 105, 110, 110, 105, 110, 103, 32, 102, 97, 99, 101>>

\* "1F600 ; fully-qualified # U+1F600 E1.0"
GrinningNoName ==
    <<49, 70, 54, 48, 48, 32, 59, 32, 102, 117, 108, 108, 121, 45, 113, 117,
    97, 108, 105, 102, 105, 101, 100, 32, 35, 32, 128512, 32, 69, 49, 46,
    48>>

\* "D800 ; fully-qualified # U+1F600 E1.0 grinning face"
SurrogateLine ==
    <<68, 56, 48, 48, 32, 59, 32, 102, 117, 108, 108, 121, 45, 113, 117, 97,
    108, 105, 102, 105, 101, 100, 32, 35, 32, 128512, 32, 69, 49, 46, 48,
    32, 103, 114, 105, 110, 110, 105, 110, 103, 32, 102, 97, 99, 101>>

\* "# group: People & Body"
GroupPeople ==
    <<35, 32, 103, 114, 111, 117, 112, 58, 32, 80, 101, 111, 112, 108, 101,
    32, 38, 32, 66, 111, 100, 121>>

\* "# subgroup:  face-affection  ", with spaces around the text
SubgroupPadded ==
    <<35, 32, 115, 117, 98, 103, 114, 111, 117, 112, 58, 32, 32, 102, 97,
    99, 101, 45, 97, 102, 102, 101, 99, 116, 105, 111, 110, 32, 32>>

RegistryLines ==
    {GroupSmileys, GroupBogus, GroupBlank, SubgroupFaceSmiling,
     CommentLine, EmptyLine, GrinningFace, SmilingFaceLine,
     GrinningMismatch, GrinningBadStatus, GrinningMismatchBadStatus,
     GrinningBadVersion, GrinningNoName, SurrogateLine,
     GroupPeople, SubgroupPadded}

\* "# group: "
GroupPrefix ==
    <<35, 32, 103, 114, 111, 117, 112, 58, 32>>

\* "# subgroup: "
SubgroupPrefix ==
    <<35, 32, 115, 117, 98, 103, 114, 111, 117, 112, 58, 32>>


(***************************************************************************)
(* parse_emoji_data (unicode/mod.rs:26-54): one step per iteration of the  *)
(* loop over the lines of the text, on the line it takes; the text ends    *)
(* where ParseEmojiDataReturn runs.                                        *)
(***************************************************************************)
\* The number of lines of the longest registry text.
MaxLines == 5

InitParse ==
    /\ pc = "parse_emoji_data"
    /\ gemojis = << >>
    /\ entries = << >>
    /\ emojis = << >>
    /\ err = ""
    /\ code = None
    /\ file = None
    /\ origin = << >>
    /\ selected = << >>
    /\ lines_read = << >>
    /\ current_group = << >>
    /\ current_subgroup = << >>
    /\ arg = << >>
    /\ ret = << >>
    /\ InitUi

\* line.starts_with('#')
IsComment(line) == line # << >> /\ Head(line) = 35

\* The for loop takes the next line of the text.
ReadLine(line) ==
    /\ pc = "parse_emoji_data"
    /\ lines_read' = Append(lines_read, line)

\* unicode/mod.rs:32-34
SkipEmptyLine(line) ==
    /\ ReadLine(line)
    /\ line = << >>
    /\ UNCHANGED <<pc, entries, err, current_group, current_subgroup>>
    /\ UNCHANGED <<main_vars, call_vars, ui_vars>>

\* SetGroup that starts the new group without subgroup.
SetGroupResetting(line) ==
    /\ ReadLine(line)
    /\ StripPrefix(line, GroupPrefix) # None
    /\ current_group' = Trim(StripPrefix(line, GroupPrefix)[1])
    /\ current_subgroup' = << >>
    /\ UNCHANGED <<pc, entries, err>>
    /\ UNCHANGED <<main_vars, call_vars, ui_vars>>

\* unicode/mod.rs:35-37, then the continue of 41-43
SetGroup(line) ==
    /\ ReadLine(line)
    /\ StripPrefix(line, GroupPrefix) # None
    /\ current_group' = Trim(StripPrefix(line, GroupPrefix)[1])
    /\ UNCHANGED <<pc, entries, err, current_subgroup>>
    /\ UNCHANGED <<main_vars, call_vars, ui_vars>>

\* unicode/mod.rs:38-40, then the continue of 41-43
SetSubgroup(line) ==
    /\ ReadLine(line)
    /\ StripPrefix(line, SubgroupPrefix) # None
    /\ current_subgroup' = Trim(StripPrefix(line, SubgroupPrefix)[1])
    /\ UNCHANGED <<pc, entries, err, current_group>>
    /\ UNCHANGED <<main_vars, call_vars, ui_vars>>

\* unicode/mod.rs:41-43, on a comment that is no header
SkipComment(line) ==
    /\ ReadLine(line)
    /\ IsComment(line)
    /\ StripPrefix(line, GroupPrefix) = None
    /\ StripPrefix(line, SubgroupPrefix) = None
    /\ UNCHANGED <<pc, entries, err, current_group, current_subgroup>>
    /\ UNCHANGED <<main_vars, call_vars, ui_vars>>

\* line is neither empty nor a comment: the loop body reaches line 44.
IsDataLine(line) == line # << >> /\ ~IsComment(line)

\* unicode/mod.rs:44-46
MissingGroup(line) ==
    /\ ReadLine(line)
    /\ IsDataLine(line)
    /\ current_group = << >>
    /\ Abort("missing group")
    /\ UNCHANGED <<entries, current_group, current_subgroup>>
    /\ UNCHANGED <<main_vars, call_vars, ui_vars>>

\* MissingSubgroup that goes on to the next line.
MissingSubgroupSkipped(line) ==
    /\ ReadLine(line)
    /\ IsDataLine(line)
    /\ current_group # << >>
    /\ current_subgroup = << >>
    /\ UNCHANGED <<pc, entries, err, current_group, current_subgroup>>
    /\ UNCHANGED <<main_vars, call_vars, ui_vars>>

\* unicode/mod.rs:47-49
MissingSubgroup(line) ==
    /\ ReadLine(line)
    /\ IsDataLine(line)
    /\ current_group # << >>
    /\ current_subgroup = << >>
    /\ Abort("missing subgroup")
    /\ UNCHANGED <<entries, current_group, current_subgroup>>
    /\ UNCHANGED <<main_vars, call_vars, ui_vars>>

\* unicode/mod.rs:50, the `?` on Group::try_from(group.to_string())
InvalidGroup(line) ==
    /\ ReadLine(line)
    /\ IsDataLine(line)
    /\ current_group # << >>
    /\ current_subgroup # << >>
    /\ ~GroupTryFrom(current_group).ok
    /\ Abort(GroupTryFrom(current_group).val)
    /\ UNCHANGED <<entries, current_group, current_subgroup>>
    /\ UNCHANGED <<main_vars, call_vars, ui_vars>>

\* The call of unicode/mod.rs:50 once the group is known.
ParsedEntry(line) ==
    parse_entry(GroupTryFrom(current_group).val, current_subgroup, line)

\* unicode/mod.rs:50, the `?` on parse_entry
ParseEntryErr(line) ==
    /\ ReadLine(line)
    /\ IsDataLine(line)
    /\ current_group # << >>
    /\ current_subgroup # << >>
    /\ GroupTryFrom(current_group).ok
    /\ ~ParsedEntry(line).ok
    /\ Abort(ParsedEntry(line).val)
    /\ UNCHANGED <<entries, current_group, current_subgroup>>
    /\ UNCHANGED <<main_vars, call_vars, ui_vars>>

\* PushEntry that puts the entry in front of the others.
PushEntryFront(line) ==
    /\ ReadLine(line)
    /\ IsDataLine(line)
    /\ current_group # << >>
    /\ current_subgroup # << >>
    /\ GroupTryFrom(current_group).ok
    /\ ParsedEntry(line).ok
    /\ entries' = <<ParsedEntry(line).val>> \o entries
    /\ UNCHANGED <<pc, err, current_group, current_subgroup>>
    /\ UNCHANGED <<main_vars, call_vars, ui_vars>>

\* unicode/mod.rs:50-51
PushEntry(line) ==
    /\ ReadLine(line)
    /\ IsDataLine(line)
    /\ current_group # << >>
    /\ current_subgroup # << >>
    /\ GroupTryFrom(current_group).ok
    /\ ParsedEntry(line).ok
    /\ entries' = Append(entries, ParsedEntry(line).val)
    /\ UNCHANGED <<pc, err, current_group, current_subgroup>>
    /\ UNCHANGED <<main_vars, call_vars, ui_vars>>

\* unicode/mod.rs:53, Ok(entries) after the last line
ParseEmojiDataReturn ==
    /\ pc = "parse_emoji_data"
    /\ pc' = "parsed"
    /\ UNCHANGED <<entries, err, main_vars, parse_vars, call_vars, ui_vars>>

NextRegistryLines ==
    IF Len(lines_read) < MaxLines THEN RegistryLines ELSE {}

NextParse ==
    \/ \E line \in NextRegistryLines : SkipEmptyLine(line)
    \/ \E line \in NextRegistryLines : SetGroup(line)
    \/ \E line \in NextRegistryLines : SetSubgroup(line)
    \/ \E line \in NextRegistryLines : SkipComment(line)
    \/ \E line \in NextRegistryLines : MissingGroup(line)
    \/ \E line \in NextRegistryLines : MissingSubgroup(line)
    \/ \E line \in NextRegistryLines : InvalidGroup(line)
    \/ \E line \in NextRegistryLines : ParseEntryErr(line)
    \/ \E line \in NextRegistryLines : PushEntry(line)
    \/ ParseEmojiDataReturn

SpecParse == InitParse /\ [][NextParse]_vars

\* This step is an iteration of the loop of parse_emoji_data, on TakenLine.
ReadStep == Len(lines_read') = Len(lines_read) + 1

TakenLine == lines_read'[Len(lines_read')]

\* The data lines among the lines taken so far, in order.
DataLines == SelectSeq(lines_read, IsDataLine)

\* line has the `;` and, behind it, the `#` that parse_entry cuts it at.
HasFields(line) ==
    /\ SplitOnce(line, 59) # None
    /\ SplitOnce(SplitOnce(line, 59)[1][2], 35) # None

\* The text of the code points of a line, in front of its `;`.
CodePointsField(line) == SplitOnce(line, 59)[1][1]

\* The status token of a line, between its `;` and its `#`.
StatusField(line) == Trim(SplitOnce(SplitOnce(line, 59)[1][2], 35)[1][1])

\* What follows the `#` of a line: the glyph, the version, the name.
CommentFields(line) ==
    Splitn3(Trim(SplitOnce(SplitOnce(line, 59)[1][2], 35)[1][2]))

\* The literal glyph of a line.
LiteralGlyph(line) == CommentFields(line)[1]

\* A data line whose code points give a string other than its glyph.
IsMismatch(line) ==
    /\ IsDataLine(line)
    /\ HasFields(line)
    /\ parse_code_points(CodePointsField(line)).ok
    /\ parse_code_points(CodePointsField(line)).val # LiteralGlyph(line)

\* The strings of the ten groups.
GroupNames == {as_str(g) : g \in Group}

\* C13: the emoji of every entry of the parser is the string of the
\* characters of the hexadecimal code points of its line; a data line whose
\* code points give another string than its literal glyph ends the parse
\* with an error and without a new entry, the error being EmojiMismatch
\* when the line has its group, its subgroup and its three fields; and a
\* parse that failed returns nothing: it takes no further step.
C13_EmojiMismatch ==
    /\ [](\A k \in 1..Len(entries) :
            /\ k <= Len(DataLines)
            /\ entries[k].emoji
                  = parse_code_points(CodePointsField(DataLines[k])).val)
    /\ [][/\ (ReadStep /\ IsMismatch(TakenLine)) =>
                /\ pc' = "aborted"
                /\ entries' = entries
                /\ (/\ current_group \in GroupNames
                    /\ current_subgroup # << >>
                    /\ Len(CommentFields(TakenLine)) = 3)
                      => err' = "emoji mismatch"
          /\ pc = "aborted" => UNCHANGED vars]_vars

\* The parser failed with EmojiMismatch on the line of 1F603 with the glyph
\* U+1F600, after it made the entry of 263A FE0F.
C13_Witness ==
    /\ pc = "aborted"
    /\ err = "emoji mismatch"
    /\ lines_read[Len(lines_read)] = GrinningMismatch
    /\ Len(entries) = 1
    /\ entries[1].emoji = <<9786, 65039>>

\* A group header whose trimmed text is the string of no group; a header of
\* blank text, which names no group at all, is left aside.
IsUnknownGroupHeader(line) ==
    /\ StripPrefix(line, GroupPrefix) # None
    /\ Trim(StripPrefix(line, GroupPrefix)[1]) # << >>
    /\ Trim(StripPrefix(line, GroupPrefix)[1]) \notin GroupNames

\* A data line whose trimmed status token is none of the four keywords.
IsUnknownStatusLine(line) ==
    /\ IsDataLine(line)
    /\ HasFields(line)
    /\ ~parse_status(StatusField(line)).ok

\* C14: a registry text that holds a group header whose trimmed text is the
\* string of no group, or a data line whose trimmed status token is none of
\* the four keywords, is not parsed with success.
C14_UnknownTokens ==
    pc = "parsed" =>
        \A k \in 1..Len(lines_read) :
            /\ ~IsUnknownGroupHeader(lines_read[k])
            /\ ~IsUnknownStatusLine(lines_read[k])

\* C14, the half of the status: no text with a data line of unknown status
\* token is parsed with success.
C14_UnknownStatus ==
    pc = "parsed" =>
        \A k \in 1..Len(lines_read) : ~IsUnknownStatusLine(lines_read[k])

\* The lines taken so far hold a header of that prefix.
SawHeader(prefix) ==
    \E k \in 1..Len(lines_read) : StripPrefix(lines_read[k], prefix) # None

\* The trimmed text of the last group header taken so far.
LastGroupText ==
    LET k == CHOOSE k \in 1..Len(lines_read) :
                /\ StripPrefix(lines_read[k], GroupPrefix) # None
                /\ \A m \in (k + 1)..Len(lines_read) :
                      StripPrefix(lines_read[m], GroupPrefix) = None
    IN  Trim(StripPrefix(lines_read[k], GroupPrefix)[1])

DataLinePos(k) ==
    CHOOSE p \in 1..Len(lines_read) :
        /\ IsDataLine(lines_read[p])
        /\ Cardinality({m \in 1..p : IsDataLine(lines_read[m])}) = k

\* The trimmed text of the last header of that prefix in front of position
\* p, the empty text when there is none.
HeaderTextBefore(prefix, p) ==
    LET headers == {m \in 1..(p - 1) : StripPrefix(lines_read[m], prefix) # None}
    IN  IF headers = {} THEN << >>
        ELSE LET m == CHOOSE m \in headers : \A n \in headers : n <= m
             IN  Trim(StripPrefix(lines_read[m], prefix)[1])

\* C21: when the parser returns Ok, its entries are the data lines of the
\* text, one entry per data line and in the order of the text, each with
\* the glyph and name of its line, the group whose string is the trimmed
\* text of the last group header in front of the line and the trimmed text
\* of the last subgroup header in front of it; and a step on a header, on
\* another comment or on an empty line makes no entry and no error.
C21_OneEntryPerDataLine ==
    /\ [](pc = "parsed" =>
            /\ Len(entries) = Len(DataLines)
            /\ \A k \in 1..Len(entries) :
                  LET p == DataLinePos(k)
                  IN  /\ entries[k].emoji = LiteralGlyph(lines_read[p])
                      /\ entries[k].name = CommentFields(lines_read[p])[3]
                      /\ as_str(entries[k].group)
                            = HeaderTextBefore(GroupPrefix, p)
                      /\ entries[k].subgroup
                            = HeaderTextBefore(SubgroupPrefix, p))
    /\ [][(ReadStep /\ ~IsDataLine(TakenLine)) =>
             (entries' = entries /\ pc' = pc /\ err' = err)]_vars

\* The parser returned the entries of 1F600 and 263A FE0F, in that order,
\* under Smileys & Emotion and the subgroup "face-affection" of a header
\* written with spaces around the text.
C21_Witness ==
    /\ pc = "parsed"
    /\ lines_read = <<GroupSmileys, CommentLine, SubgroupPadded, GrinningFace,
                      SmilingFaceLine>>
    /\ Len(entries) = 2
    /\ entries[1].emoji = <<128512>>
    /\ entries[2].emoji = <<9786, 65039>>
    /\ entries[2].group = "SmileysAndEmotion"
    /\ entries[2].subgroup =
          <<102, 97, 99, 101, 45, 97, 102, 102, 101, 99, 116, 105, 111,
              110>>

\* The line in front of the line being taken is a group header that names
\* one of the ten groups.
FollowsGroupHeader ==
    /\ lines_read # << >>
    /\ StripPrefix(lines_read[Len(lines_read)], GroupPrefix) # None
    /\ Trim(StripPrefix(lines_read[Len(lines_read)], GroupPrefix)[1])
          \in GroupNames

\* C25: a step on a group header sets the current group to its trimmed
\* text and leaves the current subgroup as it is, a step on a subgroup
\* header sets the current subgroup and leaves the current group as it is;
\* and a data line taken right after a group header, when a subgroup header
\* named a subgroup before, does not fail with MissingSubgroup: a valid line
\* makes an entry of the new group with the subgroup of that earlier header.
C25_HeaderFrame ==
    [][ReadStep =>
          /\ StripPrefix(TakenLine, GroupPrefix) # None =>
                /\ current_subgroup' = current_subgroup
                /\ current_group' = Trim(StripPrefix(TakenLine, GroupPrefix)[1])
          /\ StripPrefix(TakenLine, SubgroupPrefix) # None =>
                /\ current_group' = current_group
                /\ current_subgroup'
                      = Trim(StripPrefix(TakenLine, SubgroupPrefix)[1])
          /\ (/\ IsDataLine(TakenLine)
              /\ FollowsGroupHeader
              /\ HeaderTextBefore(SubgroupPrefix, Len(lines_read)) # << >>) =>
                /\ err' # "missing subgroup"
                /\ TakenLine \in {GrinningFace, SmilingFaceLine} =>
                      /\ pc' = "parse_emoji_data"
                      /\ Len(entries') = Len(entries) + 1
                      /\ entries'[Len(entries')].subgroup
                            = HeaderTextBefore(SubgroupPrefix, Len(lines_read))
                      /\ as_str(entries'[Len(entries')].group)
                            = HeaderTextBefore(GroupPrefix, Len(lines_read) + 1)]_vars

\* The parser made the entry of 1F600 in People & Body with the subgroup
\* "face-smiling", set under Smileys & Emotion.
C25_Witness ==
    /\ pc = "parse_emoji_data"
    /\ lines_read = <<GroupSmileys, SubgroupFaceSmiling, GroupPeople,
                      GrinningFace>>
    /\ Len(entries) = 1
    /\ entries[1].group = "PeopleAndBody"
    /\ entries[1].subgroup =
          <<102, 97, 99, 101, 45, 115, 109, 105, 108, 105, 110, 103>>


(***************************************************************************)
(* The picker (crates/emotif/src/main.rs).  Every callback runs to its end *)
(* on the glib main loop, so each one is one step.  A button is its label  *)
(* (the glyph of the markup), its tooltip and the texts of the closures    *)
(* connected to its clicked signal, in the order of connection, which is   *)
(* the order GTK runs them in.                                             *)
(***************************************************************************)
\* The number of search-changed events of a run.
MaxEvents == 3

\* emotif/main.rs:1, the table of the emojeez crate.
EMOJIS == <<TableWave, TableSmile>>

\* The texts of the search entry: "", "wa", "HI" and "p".
SearchTexts == {<< >>, <<119, 97>>, <<72, 73>>, <<112>>}

\* emotif/main.rs:106-109
NewButton == [label |-> None, tooltip |-> None, clicked |-> << >>]

\* Filtered that keeps every record.
FilteredAll(query) == EMOJIS

\* emotif/main.rs:90-100, filtered_emojis
Filtered(query) ==
    IF query = << >> THEN EMOJIS
    ELSE SelectSeq(EMOJIS,
                   LAMBDA emoji : matches_search(emoji, ToLowercase(query)))

\* emotif/main.rs:105-111, the cache with the buttons it lacks for n records
RECURSIVE Grown(_, _)
Grown(cache, n) ==
    IF Len(cache) < n THEN Grown(Append(cache, NewButton), n) ELSE cache

\* emotif/main.rs:115-134, the button after the loop body ran on it
ReuseButton(button, emoji) ==
    [label |-> Some(emoji.entry.emoji),
     tooltip |-> Some(emoji.entry.name),
     clicked |-> Append(button.clicked, emoji.entry.emoji)]

\* emotif/main.rs:77-140: the children of the grid and the cache after
\* populate_grid(grid, EMOJIS, query, clipboard, button_cache).
populate_grid(cache, query) ==
    LET filtered_emojis == Filtered(query)
        grown == Grown(cache, Len(filtered_emojis))
    IN  [grid |-> [idx \in 1..Len(filtered_emojis) |-> idx],
         cache |-> [k \in 1..Len(grown) |->
                       IF k <= Len(filtered_emojis)
                       THEN ReuseButton(grown[k], filtered_emojis[k])
                       ELSE grown[k]]]

\* The state when the application is activated.
InitPicker ==
    /\ pc = "activate"
    /\ gemojis = << >>
    /\ entries = << >>
    /\ emojis = << >>
    /\ err = ""
    /\ code = None
    /\ file = None
    /\ origin = << >>
    /\ selected = << >>
    /\ lines_read = << >>
    /\ current_group = << >>
    /\ current_subgroup = << >>
    /\ arg = << >>
    /\ ret = << >>
    /\ InitUi

\* What no step of the picker changes.
not_ui_vars == <<entries, err, main_vars, parse_vars, call_vars>>

\* emotif/main.rs:11-75, build_ui: populate_grid with the empty query
BuildUi ==
    /\ pc = "activate"
    /\ pc' = "main_loop"
    /\ grid' = populate_grid(button_cache, << >>).grid
    /\ button_cache' = populate_grid(button_cache, << >>).cache
    /\ populations' = Append(populations, << >>)
    /\ UNCHANGED <<search_generation, timeouts, clipboard, copied, events>>
    /\ UNCHANGED not_ui_vars

\* The search-changed closure that leaves search_generation as it is.
SearchChangedSameGeneration(text) ==
    /\ pc = "main_loop"
    /\ Len(events) < MaxEvents
    /\ timeouts' = timeouts \cup {[current_gen |-> search_generation,
                                   query |-> text,
                                   event |-> Len(events) + 1]}
    /\ events' = Append(events, text)
    /\ UNCHANGED <<pc, grid, button_cache, search_generation, clipboard,
                   copied, populations>>
    /\ UNCHANGED not_ui_vars

\* emotif/main.rs:55-70, the search-changed closure, the entry holding
\* `text`.  `event` is history: the number of the event that scheduled the
\* callback.
SearchChanged(text) ==
    /\ pc = "main_loop"
    /\ Len(events) < MaxEvents
    /\ search_generation' = search_generation + 1
    /\ timeouts' = timeouts \cup {[current_gen |-> search_generation + 1,
                                   query |-> text,
                                   event |-> Len(events) + 1]}
    /\ events' = Append(events, text)
    /\ UNCHANGED <<pc, grid, button_cache, clipboard, copied, populations>>
    /\ UNCHANGED not_ui_vars

\* emotif/main.rs:65-69, the callback t runs and the generations are equal
TimeoutPopulates(t) ==
    /\ pc = "main_loop"
    /\ t \in timeouts
    /\ search_generation = t.current_gen
    /\ timeouts' = timeouts \ {t}
    /\ grid' = populate_grid(button_cache, t.query).grid
    /\ button_cache' = populate_grid(button_cache, t.query).cache
    /\ populations' = Append(populations, t.query)
    /\ UNCHANGED <<pc, search_generation, clipboard, copied, events>>
    /\ UNCHANGED not_ui_vars

\* emotif/main.rs:65-69, the callback t runs and the generations differ
TimeoutStale(t) ==
    /\ pc = "main_loop"
    /\ t \in timeouts
    /\ search_generation # t.current_gen
    /\ timeouts' = timeouts \ {t}
    /\ UNCHANGED <<pc, grid, button_cache, search_generation, clipboard,
                   copied, events, populations>>
    /\ UNCHANGED not_ui_vars

\* emotif/main.rs:132-134, a click on the attached button b: its closures
\* run in the order they were connected in, each one setting the clipboard.
Clicked(b) ==
    /\ pc = "main_loop"
    /\ \E k \in 1..Len(grid) : grid[k] = b
    /\ copied' = [displayed |-> button_cache[b].label,
                  texts |-> button_cache[b].clicked]
    /\ clipboard' = Some(button_cache[b].clicked[Len(button_cache[b].clicked)])
    /\ UNCHANGED <<pc, grid, button_cache, search_generation, timeouts,
                   events, populations>>
    /\ UNCHANGED not_ui_vars

\* A callback glib has yet to run runs.
Timeout == \E t \in timeouts : TimeoutPopulates(t) \/ TimeoutStale(t)

NextPicker ==
    \/ BuildUi
    \/ \E text \in SearchTexts : SearchChanged(text)
    \/ \E t \in timeouts : TimeoutPopulates(t)
    \/ \E t \in timeouts : TimeoutStale(t)
    \/ \E b \in 1..Len(button_cache) : Clicked(b)

SpecPicker == InitPicker /\ [][NextPicker]_vars

\* The picker when every callback scheduled eventually runs.
SpecPickerLive == SpecPicker /\ WF_vars(BuildUi) /\ WF_vars(Timeout)

\* C22: every button of the cache has at most one closure connected to its
\* clicked signal, and a click copies the glyph the button displays and
\* nothing else.
C22_OneClickHandler ==
    /\ \A b \in 1..Len(button_cache) : Len(button_cache[b].clicked) <= 1
    /\ copied # << >> => copied.texts = copied.displayed


\* C23: a callback that runs repopulates the grid, with its query, exactly
\* when no search-changed event came after the event that scheduled it, and
\* otherwise leaves the grid and the button cache as they are; the grid and
\* the cache change in no step that is not a call of populate_grid; and
\* after build_ui every call of populate_grid has the text of the last
\* search-changed event, never the text of a superseded one.
C23_DebounceSafety ==
    /\ [][\A t \in timeouts :
            (timeouts' = timeouts \ {t}) =>
                IF t.event = Len(events)
                THEN populations' = Append(populations, t.query)
                ELSE /\ grid' = grid
                     /\ button_cache' = button_cache
                     /\ populations' = populations]_vars
    /\ [][(grid' # grid \/ button_cache' # button_cache) =>
             populations' # populations]_vars
    /\ [][(pc = "main_loop" /\ populations' # populations) =>
             /\ events # << >>
             /\ populations' = Append(populations, events[Len(events)])]_vars

\* Two callbacks ran, of two events with different texts, and only the one
\* of the second event repopulated the grid.
C23_Witness ==
    /\ Len(events) = 2
    /\ events[1] # events[2]
    /\ timeouts = {}
    /\ populations = << << >>, events[2] >>

\* The records of the table that match a text, in the order of the table.
Matching(text) ==
    SelectSeq(EMOJIS,
              LAMBDA emoji :
                 \/ text = << >>
                 \/ \E t \in SearchedTexts(emoji) :
                       IsSubstring(ToLowercase(text), ToLowercase(t)))

\* The glyph and the name each button of the grid displays, in the order
\* of the grid.
Shown ==
    [k \in 1..Len(grid) |->
        [emoji |-> button_cache[grid[k]].label,
         name |-> button_cache[grid[k]].tooltip]]

\* The grid shows the records that match the text of the last event.
GridShowsLast ==
    /\ events # << >>
    /\ LET m == Matching(events[Len(events)])
       IN  Shown = [k \in 1..Len(m) |->
                       [emoji |-> Some(m[k].entry.emoji),
                        name |-> Some(m[k].entry.name)]]

\* C24: when every scheduled callback eventually runs, after each
\* search-changed event either another event follows or the grid comes to
\* show exactly the records of the table that match the text of that
\* event, in the order of the table; and once it shows them it goes on
\* showing them until the next search-changed event.
C24_DebounceLiveness ==
    /\ \A n \in 1..MaxEvents :
          (Len(events) = n) ~> (Len(events) > n \/ GridShowsLast)
    /\ [][(GridShowsLast /\ events' = events) => GridShowsLast']_vars

\* After two events, the last with the text "wa", every callback has run
\* and the grid shows the one record that matches, with one of the two
\* buttons of the cache.
C24_Witness ==
    /\ Len(events) = 2
    /\ events[2] = <<119, 97>>
    /\ timeouts = {}
    /\ GridShowsLast
    /\ Len(grid) = 1
    /\ Len(button_cache) = 2

=============================================================================
